---- MODULE Spec2Model ----
(***************************************************************************)
(* State-machine model of the DuoBoard synchronization layer:              *)
(*   - useMessages  (message feed: live window, loadMore, send, like)      *)
(*   - useLists     (lists, list items, visibility subscription)           *)
(* over a Firestore-like remote document store shared by two sessions.     *)
(*                                                                         *)
(* Session 1 is the observed client: its hook state (React state, refs,    *)
(* the values captured by the current callbacks) is modelled.  Session 2   *)
(* is the other party's client: only its effect on the store is modelled.  *)
(* Every await on store or storage I/O is a separate step, so the steps    *)
(* of different operations interleave exactly where the code suspends.     *)
(***************************************************************************)
EXTENDS Integers, Sequences, FiniteSets, TLC

(* ----------------------------- bounds ---------------------------------- *)

\* Page size used by the interleaving specifications.  The source constant
\* is MESSAGES_PER_PAGE (= 50, below); the interleaving specifications run
\* the same code with this smaller page so that several pages fit in a
\* small store.  SpecPaging runs it with the source value.
ScaledPage == 2

\* Number of sendMessage/sendDrawing calls the sessions make in a run.
MaxSends == 2

\* Handlers of one kind (snapshot deliveries, loadMore calls) that may be
\* suspended on I/O at the same time.
MaxPending == 2

\* SpecPaging: the static store holds up to MaxPages pages (plus one).
MaxPages == 2

\* Lists and list items the sessions create in a run.
MaxLists == 2
MaxItems == 3

\* Auth-state listener calls (scheduled or suspended) at the same time.
MaxAuthPending == 3

\* Timers useLongPress arms, and presses made, in a run.
MaxTimers == 4
MaxPresses == 2

(* ------------------------- program constants --------------------------- *)

MESSAGES_PER_PAGE == 50

\* useMessages.ts and useLists.ts each define their own MESSAGES_COLLECTION.
UM_MESSAGES_COLLECTION == "duoboard_messages"
UL_MESSAGES_COLLECTION == "messages"
LISTS_COLLECTION == "lists"
LIST_ITEMS_COLLECTION == "listItems"

(* ------------------------------ values --------------------------------- *)

Users == {"A", "B"}
NoUser == "none"          \* userId === undefined
Null == 0                 \* null id / null ref (document ids are >= 1)
DanglingId == 99          \* an id that names no document
None == << >>             \* null for string-valued fields
NoError == "null"         \* error === null
Some(x) == << x >>
Sessions == {1, 2}
RemoteUser == "B"         \* identity signed in on session 2

Min(a, b) == IF a < b THEN a ELSE b

Reverse(s) == [i \in 1..Len(s) |-> s[Len(s) + 1 - i]]

\* String.prototype.trim on a string given as a sequence of characters.
RECURSIVE TrimLeft(_)
TrimLeft(s) == IF s # << >> /\ Head(s) = " " THEN TrimLeft(Tail(s)) ELSE s
Trim(s) == Reverse(TrimLeft(Reverse(TrimLeft(s))))

VARIABLES
  pageSize,        \* the page size this run uses (fixed by Init)
  db,              \* Firestore: collection name -> (document id -> data)
  uploads,         \* Firebase Storage: names of the objects uploaded
  nSends,          \* send calls made so far (bounded by MaxSends)
  idGen,           \* per collection: how many ids the store has assigned
  userId,          \* useMessages/useLists argument of session 1
  messages, loading, loadingMore, hasMore, error,   \* useMessages state
  lastDocRef, initialLoadRef,                       \* useMessages refs
  cb,              \* loadingMore/hasMore captured by the current loadMore
  sub,             \* the onSnapshot listener of useMessages
  snapPend,        \* snapshot handlers suspended in fetchReplyMessages
  lmPend,          \* loadMore calls suspended on getDocs / fetchReplyMessages
  calls,           \* per session: the store operation in flight
  lists, listsLoading, listsError,     \* useLists state
  listsSub,        \* the onSnapshot listener of useLists
  fetched,         \* what getListItems last returned to session 1
  view,            \* ListView of session 1: its state, ChatPage's
                   \* showListView, and the promises its handlers await
  picker,          \* ListPicker of session 1 with ChatPage's showListPicker
                   \* and selectedMessageForList, and its create flow
  auth,            \* AuthProvider: its state and the callbacks in flight
  press,           \* useLongPress: the press, its timers and its calls
  likeHist,        \* the last likes write the store applied (history)
  act              \* the last step taken and its outcome (history)

feedVars == << userId, messages, loading, loadingMore, hasMore, error,
               lastDocRef, initialLoadRef, cb, sub, snapPend, lmPend >>
storeVars == << db, uploads, nSends, idGen >>
\* What no step of useMessages touches.
otherVars == << auth, press >>
fixedVars == << pageSize, view, picker, otherVars, lists, listsError, fetched >>
\* What no step of useLists touches.
msgVars == << pageSize, uploads, nSends, messages, loading, loadingMore,
             hasMore, error, lastDocRef, initialLoadRef, cb, sub, snapPend,
             lmPend, likeHist >>
vars == << pageSize, db, uploads, nSends, idGen, userId, messages, loading,
           loadingMore, hasMore, error, lastDocRef, initialLoadRef, cb, sub,
           snapPend, lmPend, calls, lists, listsLoading, listsError, listsSub,
           fetched, view, picker, auth, press, likeHist, act >>

(* ------------------------------ store ---------------------------------- *)

Coll(c) == db[c]
Exists(c, id) == id \in DOMAIN db[c]

\* getDoc(doc(db, c, id)): the snapshot, None when the document is missing.
GetDoc(c, id) ==
  IF Exists(c, id) THEN Some([id |-> id] @@ db[c][id]) ELSE None

\* addDoc assigns a fresh id (never reused, also after a delete).
NextId(c) == idGen[c] + 1

\* addDoc(collection(db, c), data)
AddDoc(c, data) == [db EXCEPT ![c] = (NextId(c) :> data) @@ @]

\* updateDoc(doc(db, c, id), patch): merge, omitted fields untouched.
UpdateDoc(c, id, patch) ==
  [db EXCEPT ![c][id] = [f \in DOMAIN @ |->
                            IF f \in DOMAIN patch THEN patch[f] ELSE @[f]]]

\* deleteDoc(doc(db, c, id)); deleting a missing document succeeds.
DeleteDocs(c, ids) ==
  [db EXCEPT ![c] = [k \in (DOMAIN @) \ ids |-> @[k]]]

(* ------------------------- history of steps ---------------------------- *)

\* name: the step; s: the session (0: the hook itself); ok: whether the
\* store / storage accepted the I/O of this step; out: what the caller's
\* promise did at this step ("pending", "resolved", or the Error thrown).
\* arg: the arguments of the call, where a claim needs them.
ActArg(name, s, ok, out, arg) ==
  [name |-> name, s |-> s, ok |-> ok, out |-> out, arg |-> arg]
Act(name, s, ok, out) == ActArg(name, s, ok, out, << >>)

Idle == [op |-> "idle"]
UidNeverUndefined(s) == IF s = 1 /\ userId # NoUser THEN userId ELSE RemoteUser
Uid(s) == IF s = 1 THEN userId ELSE RemoteUser

(* ======================= useMessages (part_000) ======================== *)

MsgIds == DOMAIN db[UM_MESSAGES_COLLECTION]
MsgDoc(id) == [id |-> id] @@ db[UM_MESSAGES_COLLECTION][id]

\* query(orderBy('timestamp','desc'), limit(n)): the timestamp of a message
\* is its creation rank, which is also its id, so the newest are the largest.
QueryNewest(n) ==
  LET total == Cardinality(MsgIds)
  IN  [i \in 1..Min(n, total) |-> MsgDoc(total + 1 - i)]

\* Mutant of QueryOlder: startAt instead of startAfter (cursor included).
QueryOlderFromCursor(cursor, n) ==
  LET older == {k \in MsgIds : db[UM_MESSAGES_COLLECTION][k].timestamp
                                 <= db[UM_MESSAGES_COLLECTION][cursor].timestamp}
      cnt == Cardinality(older)
  IN  [i \in 1..Min(n, cnt) |-> MsgDoc(cnt + 1 - i)]

\* query(orderBy('timestamp','desc'), startAfter(cursor), limit(n))
QueryOlder(cursor, n) ==
  LET older == {k \in MsgIds : db[UM_MESSAGES_COLLECTION][k].timestamp
                                 < db[UM_MESSAGES_COLLECTION][cursor].timestamp}
      cnt == Cardinality(older)
  IN  [i \in 1..Min(n, cnt) |-> MsgDoc(cnt + 1 - i)]

\* fetchReplyMessages: the ids it has to read.
ReplyIds(msgs) == {msgs[i].replyTo : i \in {j \in 1..Len(msgs) : msgs[j].replyTo # Null}}

\* Mutant of FetchReplyMessages: the exists() test of line 52 left out.
FetchReplyMessagesNoExistsTest(msgs) ==
  [i \in 1..Len(msgs) |->
     msgs[i] @@ [replyToMessage |->
        IF msgs[i].replyTo # Null THEN Some([id |-> msgs[i].replyTo])
        ELSE None]]

\* fetchReplyMessages once its point reads have returned.
FetchReplyMessages(msgs) ==
  [i \in 1..Len(msgs) |->
     msgs[i] @@ [replyToMessage |->
        IF msgs[i].replyTo # Null
        THEN GetDoc(UM_MESSAGES_COLLECTION, msgs[i].replyTo)
        ELSE None]]

NoReplies(msgs) == [i \in 1..Len(msgs) |-> msgs[i] @@ [replyToMessage |-> None]]

RemoveAt(s, i) == [k \in 1..(Len(s) - 1) |-> IF k < i THEN s[k] ELSE s[k + 1]]

\* Mutant of ReplaceWindow: the batch merged behind the previous window.
MergeWindow(prev, withReplies) == prev \o Reverse(withReplies)

\* setMessages(messagesWithReplies.reverse()) (line 102): the new window is
\* the batch, oldest first, whatever the previous window was.
ReplaceWindow(prev, withReplies) == Reverse(withReplies)

\* Mutant of PrependPage: the page put behind the window.
AppendPage(prev, olderWithReplies) == prev \o Reverse(olderWithReplies)

\* setMessages((prev) => [...olderWithReplies.reverse(), ...prev]) (line 151).
PrependPage(prev, olderWithReplies) == Reverse(olderWithReplies) \o prev

\* Failed or overlapping deliveries let loadMore prepend the same pages again
\* and again; the model follows the window up to this length.
WindowCap == (MaxPages + 1) * pageSize + 1

\* The loadMore callback as created by the last render.
Captured == [loadingMore |-> loadingMore, hasMore |-> hasMore]

\* React re-renders: the callbacks are re-created over the current state.
Render ==
  /\ cb # Captured
  /\ cb' = Captured
  /\ act' = Act("render", 0, TRUE, "-")
  /\ UNCHANGED << fixedVars, listsLoading, listsSub, likeHist, storeVars, userId, messages, loading, loadingMore,
                  hasMore, error, lastDocRef, initialLoadRef, sub, snapPend,
                  lmPend, calls >>

\* userId changes (ChatPage passes user?.uid to both hooks).  The
\* subscription effects re-run (part_000 lines 64-118, useLists.ts lines
\* 30-67): each cleanup unsubscribes, then each effect body runs for the new
\* userId.  Neither effect resets messages or lists.
SetUser(u) ==
  /\ u # userId
  /\ userId' = u
  /\ cb' = Captured
  /\ IF u = NoUser
     THEN /\ loading' = FALSE
          /\ sub' = [open |-> FALSE, last |-> None]
          /\ listsLoading' = FALSE
          /\ listsSub' = [open |-> FALSE, last |-> None]
          /\ UNCHANGED error
     ELSE /\ loading' = TRUE
          /\ error' = NoError
          /\ sub' = [open |-> TRUE, last |-> None]
          /\ listsLoading' = TRUE
          /\ listsSub' = [open |-> TRUE, last |-> None]
  /\ act' = Act("setUser", 0, TRUE, "-")
  /\ UNCHANGED << fixedVars, likeHist, storeVars, messages, loadingMore, hasMore,
                  lastDocRef, initialLoadRef, snapPend, lmPend, calls >>

\* In the history, a step that suspends on fetchReplyMessages carries the
\* cursor and hasMore it found (and, for loadMore, whether the call began in
\* the step before).
\* onSnapshot success callback, up to its await (lines 83-101).  The listener
\* fires when the result of the query differs from what it last delivered.
\* A batch without replyTo is installed in the same step: fetchReplyMessages
\* returns without I/O and the continuation runs before any other handler.
Deliver ==
  /\ sub.open
  /\ LET newMessages == QueryNewest(pageSize)
         n == Len(newMessages)
     IN  /\ sub.last # Some(newMessages)
         /\ sub' = [sub EXCEPT !.last = Some(newMessages)]
         /\ initialLoadRef' = IF n > 0 /\ initialLoadRef = Null
                              THEN newMessages[1].timestamp ELSE initialLoadRef
         /\ lastDocRef' = IF n > 0 THEN newMessages[n].id ELSE Null
         /\ hasMore' = (n = pageSize)
         /\ IF ReplyIds(newMessages) = {}
            THEN /\ messages' = ReplaceWindow(messages, NoReplies(newMessages))
                 /\ loading' = FALSE
                 /\ UNCHANGED snapPend
            ELSE /\ Len(snapPend) < MaxPending
                 /\ snapPend' = Append(snapPend, newMessages)
                 /\ UNCHANGED << messages, loading >>
  /\ act' = IF ReplyIds(QueryNewest(pageSize)) = {}
            THEN Act("deliver", 0, TRUE, "-")
            ELSE ActArg("deliver", 0, TRUE, "-", << lastDocRef, hasMore >>)
  /\ UNCHANGED << fixedVars, listsLoading, listsSub, likeHist, storeVars, userId, loadingMore, error, cb, lmPend, calls >>

\* The rest of the success callback (lines 101-108): the point reads of
\* fetchReplyMessages returned (ok) or one of them failed.
DeliverResolve(i, ok) ==
  /\ i \in 1..Len(snapPend)
  /\ snapPend' = RemoveAt(snapPend, i)
  /\ IF ok
     THEN /\ messages' = ReplaceWindow(messages, FetchReplyMessages(snapPend[i]))
          /\ UNCHANGED error
     ELSE /\ error' = "Failed to load messages"
          /\ UNCHANGED messages
  /\ loading' = FALSE
  /\ act' = Act("deliverResolve", 0, ok, "-")
  /\ UNCHANGED << fixedVars, listsLoading, listsSub, likeHist, storeVars, userId, loadingMore, hasMore, lastDocRef,
                  initialLoadRef, cb, sub, lmPend, calls >>

\* onSnapshot error callback (lines 110-114); the listener ends with it.
SnapshotError ==
  /\ sub.open
  /\ sub' = [sub EXCEPT !.open = FALSE]
  /\ error' = "Failed to connect to messages"
  /\ loading' = FALSE
  /\ act' = Act("snapshotError", 0, FALSE, "-")
  /\ UNCHANGED << fixedVars, listsLoading, listsSub, likeHist, storeVars, userId, messages, loadingMore, hasMore,
                  lastDocRef, initialLoadRef, cb, snapPend, lmPend, calls >>

\* Mutant of LoadMoreGuard: the hasMore test left out.
LoadMoreGuardWithoutHasMore ==
  ~(userId = NoUser \/ cb.loadingMore \/ lastDocRef = Null)

\* loadMore, line 122: the guard reads the captured state and the ref.
LoadMoreGuard ==
  ~(userId = NoUser \/ cb.loadingMore \/ ~cb.hasMore \/ lastDocRef = Null)

\* loadMore up to its first await (lines 121-134).
LoadMoreCall ==
  /\ IF LoadMoreGuard
     THEN /\ Len(lmPend) < MaxPending
          /\ loadingMore' = TRUE
          /\ lmPend' = Append(lmPend, [pc |-> "getDocs", cursor |-> lastDocRef,
                                       batch |-> << >>])
          /\ act' = Act("loadMore", 1, TRUE, "pending")
     ELSE /\ UNCHANGED << loadingMore, lmPend >>
          /\ act' = Act("loadMore", 1, TRUE, "resolved")
  /\ UNCHANGED << fixedVars, listsLoading, listsSub, likeHist, storeVars, userId, messages, loading, hasMore, error,
                  lastDocRef, initialLoadRef, cb, sub, snapPend, calls >>

\* Mutant of LoadingMoreAfter: the flag is reset on the success path only.
LoadingMoreAfterSuccessOnly(ok) == ~ok

\* The finally of loadMore (lines 155-157): setLoadingMore(false) however
\* the try ended.
LoadingMoreAfter(ok) == FALSE

\* Mutant of MorePages: any page ends the history.
MorePagesNever(n) == FALSE

\* olderMessages.length === MESSAGES_PER_PAGE (line 147).
MorePages(n) == n = pageSize

\* loadMore after getDocs (lines 134-158).
LoadMoreGetDocs(i, ok) ==
  /\ i \in 1..Len(lmPend)
  /\ lmPend[i].pc = "getDocs"
  /\ IF ~ok
     THEN /\ error' = "Failed to load more messages"
          /\ loadingMore' = LoadingMoreAfter(FALSE)
          /\ lmPend' = RemoveAt(lmPend, i)
          /\ UNCHANGED << messages, hasMore, lastDocRef >>
     ELSE LET olderMessages == QueryOlder(lmPend[i].cursor, pageSize)
              n == Len(olderMessages)
          IN  /\ lastDocRef' = IF n > 0 THEN olderMessages[n].id ELSE lastDocRef
              /\ hasMore' = MorePages(n)
              /\ UNCHANGED error
              /\ IF n > 0 /\ ReplyIds(olderMessages) # {}
                 THEN /\ lmPend' = [lmPend EXCEPT ![i] =
                            [pc |-> "replies", cursor |-> @.cursor,
                             batch |-> olderMessages]]
                      /\ UNCHANGED << messages, loadingMore >>
                 ELSE /\ Len(messages) + n <= WindowCap
                      /\ messages' = PrependPage(messages, NoReplies(olderMessages))
                      /\ loadingMore' = LoadingMoreAfter(TRUE)
                      /\ lmPend' = RemoveAt(lmPend, i)
  /\ act' = IF ok /\ ReplyIds(QueryOlder(lmPend[i].cursor, pageSize)) # {}
            THEN ActArg("loadMoreGetDocs", 1, ok, "-",
                        << lastDocRef, hasMore,
                           act.name = "loadMore" /\ act.out = "pending" >>)
            ELSE Act("loadMoreGetDocs", 1, ok, "-")
  /\ UNCHANGED << fixedVars, listsLoading, listsSub, likeHist, storeVars, userId, loading, initialLoadRef, cb, sub,
                  snapPend, calls >>

\* loadMore after fetchReplyMessages (lines 150-158).
LoadMoreReplies(i, ok) ==
  /\ i \in 1..Len(lmPend)
  /\ lmPend[i].pc = "replies"
  /\ IF ok
     THEN /\ Len(messages) + Len(lmPend[i].batch) <= WindowCap
          /\ messages' = PrependPage(messages, FetchReplyMessages(lmPend[i].batch))
          /\ UNCHANGED error
     ELSE /\ error' = "Failed to load more messages"
          /\ UNCHANGED messages
  /\ loadingMore' = LoadingMoreAfter(ok)
  /\ lmPend' = RemoveAt(lmPend, i)
  /\ act' = Act("loadMoreReplies", 1, ok, "-")
  /\ UNCHANGED << fixedVars, listsLoading, listsSub, likeHist, storeVars, userId, loading, hasMore, lastDocRef,
                  initialLoadRef, cb, sub, snapPend, calls >>

\* The text inputs of sendMessage: empty, blank, plain, padded.
Contents == { << >>, << " " >>, << "h", "i" >>, << " ", "h", "i", " " >> }

\* replyTo arguments: none, the oldest message, an id naming no message.
ReplyArgs == {Null, 1, DanglingId}

\* Mutant of TextMessageData: the content stored as typed.
TextMessageDataUntrimmed(uid, content, replyTo) ==
  [senderId |-> uid, content |-> Some(content), imageUrl |-> None,
   replyTo |-> replyTo, likes |-> {}]

\* messageData of sendMessage (lines 167-174), before the store stamps it.
TextMessageData(uid, content, replyTo) ==
  [senderId |-> uid, content |-> Some(Trim(content)), imageUrl |-> None,
   replyTo |-> replyTo, likes |-> {}]

\* Mutant of DrawingMessageData: content '' instead of null.
DrawingMessageDataEmptyContent(uid, imageUrl, replyTo) ==
  [senderId |-> uid, content |-> Some(<< >>), imageUrl |-> Some(imageUrl),
   replyTo |-> replyTo, likes |-> {}]

\* Mutant of DrawingMessageData: the URL of an object that was not uploaded.
DrawingMessageDataOtherObject(uid, imageUrl, replyTo) ==
  [senderId |-> uid, content |-> None, imageUrl |-> Some(<< uid, DanglingId >>),
   replyTo |-> replyTo, likes |-> {}]

\* messageData of sendDrawing (lines 202-209).
DrawingMessageData(uid, imageUrl, replyTo) ==
  [senderId |-> uid, content |-> None, imageUrl |-> Some(imageUrl),
   replyTo |-> replyTo, likes |-> {}]

\* sendMessage up to its await (lines 163-176).
SendMessageCall(s, content, replyTo) ==
  /\ calls[s] = Idle
  /\ IF Uid(s) = NoUser \/ Trim(content) = << >>
     THEN /\ act' = ActArg("sendMessage", s, TRUE, "resolved", << content >>)
          /\ UNCHANGED << calls, nSends >>
     ELSE /\ nSends < MaxSends
          /\ nSends' = nSends + 1
          /\ calls' = [calls EXCEPT ![s] =
               [op |-> "sendMessage", pc |-> "addDoc", content |-> content,
                data |-> TextMessageData(Uid(s), content, replyTo)]]
          /\ act' = ActArg("sendMessage", s, TRUE, "pending", << content >>)
  /\ UNCHANGED << fixedVars, listsLoading, listsSub, likeHist, db, uploads, idGen, feedVars >>

\* addDoc of sendMessage / sendDrawing returns (lines 176-180, 211-215); the
\* store sets timestamp (serverTimestamp()) when it accepts the document.
SendAddDoc(s, ok) ==
  /\ calls[s].op \in {"sendMessage", "sendDrawing"}
  /\ calls[s].pc = "addDoc"
  /\ calls' = [calls EXCEPT ![s] = Idle]
  /\ IF ok
     THEN /\ db' = AddDoc(UM_MESSAGES_COLLECTION,
                     calls[s].data @@ [timestamp |-> NextId(UM_MESSAGES_COLLECTION)])
          /\ idGen' = [idGen EXCEPT ![UM_MESSAGES_COLLECTION] = @ + 1]
          /\ act' = Act(calls[s].op, s, TRUE, "resolved")
     ELSE /\ UNCHANGED << db, idGen >>
          /\ act' = Act(calls[s].op, s, FALSE,
                        IF calls[s].op = "sendMessage"
                        THEN "Failed to send message" ELSE "Failed to send drawing")
  /\ UNCHANGED << fixedVars, listsLoading, listsSub, likeHist, uploads, nSends, feedVars >>

\* sendDrawing up to uploadBytes (lines 187-198); valid: whether fetch() and
\* blob() of drawing.dataUrl succeed.
SendDrawingCall(s, valid, replyTo) ==
  /\ calls[s] = Idle
  /\ IF Uid(s) = NoUser
     THEN /\ act' = Act("sendDrawing", s, TRUE, "resolved")
          /\ UNCHANGED << calls, nSends >>
     ELSE /\ nSends < MaxSends
          /\ nSends' = nSends + 1
          /\ IF valid
             THEN /\ calls' = [calls EXCEPT ![s] =
                       [op |-> "sendDrawing", pc |-> "uploadBytes",
                        uid |-> Uid(s), replyTo |-> replyTo,
                        fileName |-> << Uid(s), nSends >>]]
                  /\ act' = Act("sendDrawing", s, TRUE, "pending")
             ELSE /\ UNCHANGED calls
                  /\ act' = Act("sendDrawing", s, FALSE, "Failed to send drawing")
  /\ UNCHANGED << fixedVars, listsLoading, listsSub, likeHist, db, uploads, idGen, feedVars >>

\* uploadBytes returns (line 198).
SendDrawingUpload(s, ok) ==
  /\ calls[s].op = "sendDrawing"
  /\ calls[s].pc = "uploadBytes"
  /\ IF ok
     THEN /\ uploads' = uploads \cup {calls[s].fileName}
          /\ calls' = [calls EXCEPT ![s].pc = "getDownloadURL"]
          /\ act' = Act("sendDrawing.upload", s, TRUE, "pending")
     ELSE /\ UNCHANGED uploads
          /\ calls' = [calls EXCEPT ![s] = Idle]
          /\ act' = Act("sendDrawing.upload", s, FALSE, "Failed to send drawing")
  /\ UNCHANGED << fixedVars, listsLoading, listsSub, likeHist, db, nSends, idGen, feedVars >>

\* getDownloadURL returns (lines 199-211): the message data gets the URL.
SendDrawingUrl(s, ok) ==
  /\ calls[s].op = "sendDrawing"
  /\ calls[s].pc = "getDownloadURL"
  /\ IF ok
     THEN /\ calls' = [calls EXCEPT ![s] =
                    [op |-> "sendDrawing", pc |-> "addDoc",
                     data |-> DrawingMessageData(calls[s].uid, calls[s].fileName,
                                                 calls[s].replyTo)]]
          /\ act' = Act("sendDrawing.url", s, TRUE, "pending")
     ELSE /\ calls' = [calls EXCEPT ![s] = Idle]
          /\ act' = Act("sendDrawing.url", s, FALSE, "Failed to send drawing")
  /\ UNCHANGED << fixedVars, listsLoading, listsSub, likeHist, storeVars, feedVars >>

\* Mutant of ToggledLikes: the delete branch missing.
ToggledLikesAddOnly(currentLikes, uid) == currentLikes \cup {uid}

\* Lines 231-238: flip the caller's entry of the likes record.  Only `true`
\* is ever stored for a key, so the record is given as the set of its keys.
ToggledLikes(currentLikes, uid) ==
  IF uid \in currentLikes THEN currentLikes \ {uid} ELSE currentLikes \cup {uid}

\* Mutant of PatchLikes: the likes of every entry replaced.
PatchLikesAll(prev, messageId, newLikes) ==
  [i \in 1..Len(prev) |-> [prev[i] EXCEPT !.likes = newLikes]]

\* Mutant of LikesPatch: the content cleared along with the likes written.
LikesPatchClearingContent(uid, newLikes) == [likes |-> newLikes, content |-> None]

\* { likes: newLikes } of line 240: the only field of the write.
LikesPatch(uid, newLikes) == [likes |-> newLikes]

\* Line 244: the window with the likes of messageId replaced.
PatchLikes(prev, messageId, newLikes) ==
  [i \in 1..Len(prev) |->
     IF prev[i].id = messageId THEN [prev[i] EXCEPT !.likes = newLikes]
     ELSE prev[i]]

\* Messages a like may target: the oldest one, a missing one.
LikeTargets == {1, DanglingId}

\* Mutant of MessageDocExists: the exists() test of line 229 left out and
\* the likes of a missing document read as {}.
MessageDocExistsUntested(messageDoc) == TRUE

\* messageDoc.exists() of line 229.
MessageDocExists(messageDoc) == messageDoc # None

\* toggleLike up to getDoc (lines 222-227).
ToggleLikeCall(s, messageId) ==
  /\ calls[s] = Idle
  /\ IF Uid(s) = NoUser
     THEN /\ UNCHANGED calls
          /\ act' = Act("toggleLike", s, TRUE, "resolved")
     ELSE /\ calls' = [calls EXCEPT ![s] =
               [op |-> "toggleLike", pc |-> "getDoc", uid |-> Uid(s),
                messageId |-> messageId, newLikes |-> {},
                clean |-> TRUE, restores |-> None]]
          /\ act' = Act("toggleLike", s, TRUE, "pending")
  /\ UNCHANGED << fixedVars, listsLoading, listsSub, likeHist, storeVars, feedVars >>

\* getDoc returns (lines 227-240); a failed read lands in the catch, which
\* only logs.
ToggleLikeGetDoc(s, ok) ==
  /\ calls[s].op = "toggleLike"
  /\ calls[s].pc = "getDoc"
  /\ LET messageDoc == GetDoc(UM_MESSAGES_COLLECTION, calls[s].messageId)
         \* line 231; line 229 keeps it from a missing document
         currentLikes == IF messageDoc = None THEN {} ELSE messageDoc[1].likes
     IN  IF ok /\ MessageDocExists(messageDoc)
         THEN /\ calls' = [calls EXCEPT ![s].pc = "updateDoc",
                 ![s].newLikes = ToggledLikes(currentLikes, calls[s].uid)]
              /\ act' = Act("toggleLike.getDoc", s, TRUE, "pending")
         ELSE /\ calls' = [calls EXCEPT ![s] = Idle]
              /\ act' = Act("toggleLike.getDoc", s, ok, "resolved")
  /\ UNCHANGED << fixedVars, listsLoading, listsSub, likeHist, storeVars, feedVars >>

\* updateDoc returns (lines 240-248); it rejects when the document does not
\* exist.  The store applies the write here; the continuation that patches
\* the window runs when the acknowledgement reaches the client
\* (ToggleLikePatch).
ToggleLikeUpdateDoc(s, ok) ==
  /\ calls[s].op = "toggleLike"
  /\ calls[s].pc = "updateDoc"
  /\ IF ok /\ Exists(UM_MESSAGES_COLLECTION, calls[s].messageId)
     THEN LET c == calls[s]
              cur == db[UM_MESSAGES_COLLECTION][c.messageId].likes
              \* history: this write follows a write of the same identity to
              \* the same message, and each of the two calls wrote while the
              \* likes it had read were still the stored ones
              pair == c.clean /\ likeHist.clean /\ likeHist.uid = c.uid
                              /\ likeHist.messageId = c.messageId
              other == 3 - s
          IN  /\ db' = UpdateDoc(UM_MESSAGES_COLLECTION, c.messageId,
                                 LikesPatch(c.uid, c.newLikes))
              /\ likeHist' = [uid |-> c.uid, messageId |-> c.messageId,
                              before |-> cur, clean |-> c.clean,
                              pair |-> pair]
              /\ calls' = [calls EXCEPT
                    ![s] = IF s = 1
                           THEN [c EXCEPT !.pc = "patch",
                                   !.restores = IF pair THEN Some(likeHist.before)
                                                ELSE None]
                           ELSE Idle,
                    ![other] = IF @.op = "toggleLike" /\ @.pc = "updateDoc"
                                  /\ @.messageId = c.messageId
                               THEN [@ EXCEPT !.clean = FALSE] ELSE @]
              /\ act' = Act("toggleLike.updateDoc", s, TRUE,
                            IF s = 1 THEN "pending" ELSE "resolved")
     ELSE /\ UNCHANGED << db, likeHist >>
          /\ calls' = [calls EXCEPT ![s] = Idle]
          /\ act' = Act("toggleLike.updateDoc", s, FALSE, "resolved")
  /\ UNCHANGED << fixedVars, listsLoading, listsSub, uploads, nSends, idGen, feedVars >>

\* setMessages of lines 243-245, session 1.
ToggleLikePatch ==
  /\ calls[1].op = "toggleLike"
  /\ calls[1].pc = "patch"
  /\ messages' = PatchLikes(messages, calls[1].messageId, calls[1].newLikes)
  /\ calls' = [calls EXCEPT ![1] = Idle]
  /\ act' = Act("toggleLike.patch", 1, TRUE, "resolved")
  /\ UNCHANGED << fixedVars, listsLoading, listsSub, likeHist, storeVars, userId, loading, loadingMore, hasMore,
                  error, lastDocRef, initialLoadRef, cb, sub, snapPend, lmPend >>

(* ============================== useLists =============================== *)

ListIds == DOMAIN db[LISTS_COLLECTION]
ItemIds == DOMAIN db[LIST_ITEMS_COLLECTION]

\* The documents `ids` of collection c as { id, ...data() }, ordered by the
\* timestamp field f descending (orderBy(f, 'desc')).
RECURSIVE DocsDesc(_, _, _)
DocsDesc(c, ids, f) ==
  IF ids = {} THEN << >>
  ELSE LET top == CHOOSE x \in ids : \A y \in ids : db[c][y][f] <= db[c][x][f]
       IN << [id |-> top] @@ db[c][top] >> \o DocsDesc(c, ids \ {top}, f)

\* The predicate of the subscription's query (lines 42-45).
VisibleTo(uid, l) == l.visibility = "public" \/ l.ownerId = uid

\* listsQuery of lines 40-47 for the identity uid.
ListsQuery(uid) ==
  DocsDesc(LISTS_COLLECTION,
           {l \in ListIds : VisibleTo(uid, db[LISTS_COLLECTION][l])},
           "createdAt")

\* onSnapshot success callback (lines 51-58); the listener fires when the
\* result of its query differs from the one it delivered last.
ListsDeliver ==
  /\ listsSub.open
  /\ listsSub.last # Some(ListsQuery(userId))
  /\ lists' = ListsQuery(userId)
  /\ listsLoading' = FALSE
  /\ listsSub' = [listsSub EXCEPT !.last = Some(ListsQuery(userId))]
  /\ act' = Act("lists.deliver", 0, TRUE, "-")
  /\ UNCHANGED << msgVars, view, picker, otherVars, db, idGen, userId, calls,
                  listsError, fetched >>

\* onSnapshot error callback (lines 59-63); the listener is dead afterwards.
ListsSnapshotError ==
  /\ listsSub.open
  /\ listsError' = "Failed to load lists"
  /\ listsLoading' = FALSE
  /\ listsSub' = [listsSub EXCEPT !.open = FALSE]
  /\ act' = Act("lists.error", 0, FALSE, "-")
  /\ UNCHANGED << msgVars, view, picker, otherVars, db, idGen, userId, calls,
                  lists, fetched >>

\* What the list operations leave alone besides the store and the call;
\* hookFrame is the same without the ListView and the ListPicker, whose
\* handlers continue when the operation they await settles.
hookFrame == << msgVars, otherVars, userId, lists, listsLoading, listsError,
               listsSub >>
listFrame == << hookFrame, view, picker >>

InFlight(op) == Cardinality({s \in Sessions : calls[s].op = op})

\* The createList arguments tried: (name, visibility, type, emoji); a name
\* is a sequence of characters.
ListInputs ==
  { [name |-> << "G" >>, visibility |-> "private", type |-> "checklist",
     emoji |-> None],
    [name |-> << "T" >>, visibility |-> "public", type |-> "collection",
     emoji |-> Some("x")],
    [name |-> << >>, visibility |-> "public", type |-> "checklist",
     emoji |-> Some("")],
    [name |-> << " " >>, visibility |-> "private", type |-> "collection",
     emoji |-> None] }

\* emoji || '' of line 85.
EmojiOrEmpty(emoji) == IF emoji = None \/ emoji = Some("") THEN "" ELSE emoji[1]

\* listData of lines 80-87; createdAt is the server's creation rank.
ListData(uid, in, createdAt) ==
  [name |-> in.name, ownerId |-> uid, visibility |-> in.visibility,
   type |-> in.type, emoji |-> EmojiOrEmpty(in.emoji), createdAt |-> createdAt]

\* createList, lines 70-89: up to the await of addDoc.
CreateListCall(s, in) ==
  /\ calls[s] = Idle
  /\ idGen[LISTS_COLLECTION] + InFlight("createList") < MaxLists
  /\ IF Uid(s) = NoUser
     THEN /\ UNCHANGED calls
          /\ act' = ActArg("createList", s, TRUE, "resolved", << in.name >>)
     ELSE /\ calls' = [calls EXCEPT ![s] =
                         [op |-> "createList", pc |-> "addDoc",
                          uid |-> Uid(s), in |-> in]]
          /\ act' = ActArg("createList", s, TRUE, "pending", << in.name >>)
  /\ UNCHANGED << listFrame, db, idGen, fetched >>

\* The call record of an addMessageToList suspended on its existence query
\* (useLists.ts lines 146-157).
AddStarted(listId, messageId, second) ==
  [op |-> "addMessageToList", pc |-> "getDocs", listId |-> listId,
   messageId |-> messageId, second |-> second]

\* Whether the createList settling in session s is the one that the
\* ListPicker's handleCreateList awaits.
PickerCreates(s) == s = 1 /\ picker.flow = "create"

\* Mutant of ChainedAdd: the message selected when createList returns
\* instead of the one handleSelectList closed over.
ChainedAddOfCurrent(listId) == AddStarted(listId, picker.message, FALSE)

\* ListPicker.handleCreateList line 47-49 with ChatPage.handleSelectList
\* (part_003 lines 117-121): onSelectList(listId) is the handleSelectList of
\* the render in which Create was pressed, so it adds the message that was
\* selected then.
ChainedAdd(listId) == AddStarted(listId, picker.captured, FALSE)

\* ListPicker.handleCreateList (lines 36-56) after its await: with an id
\* the chained add starts, and resetForm and setCreating(false) follow; a
\* rejected createList goes to the catch and setCreating(false).
AfterCreateList(s, ok) ==
  IF ~PickerCreates(s) THEN picker
  ELSE [picker EXCEPT !.creating = FALSE,
                      !.flow = IF ok THEN "chained" ELSE "none",
                      !.captured = IF ok THEN @ ELSE Null]

\* createList, lines 89-94: addDoc settles.
CreateListAddDoc(s, ok) ==
  /\ calls[s].op = "createList"
  /\ IF ok
     THEN /\ db' = AddDoc(LISTS_COLLECTION,
                          ListData(calls[s].uid, calls[s].in,
                                   NextId(LISTS_COLLECTION)))
          /\ idGen' = [idGen EXCEPT ![LISTS_COLLECTION] = @ + 1]
          /\ act' = ActArg("createList.addDoc", s, TRUE, "resolved",
                           << NextId(LISTS_COLLECTION) >>)
     ELSE /\ UNCHANGED << db, idGen >>
          /\ act' = Act("createList.addDoc", s, FALSE, "Failed to create list")
  /\ calls' = [calls EXCEPT ![s] = IF ok /\ PickerCreates(s)
                                    THEN ChainedAdd(NextId(LISTS_COLLECTION))
                                    ELSE Idle]
  /\ picker' = AfterCreateList(s, ok)
  /\ UNCHANGED << hookFrame, view, fetched >>

\* The updateList patches tried.
ListUpdates == { [visibility |-> "private"], [visibility |-> "public"] }

\* updateList, lines 100-109: up to the await of updateDoc.
UpdateListCall(s, listId, updates) ==
  /\ calls[s] = Idle
  /\ IF Uid(s) = NoUser
     THEN /\ UNCHANGED calls
          /\ act' = Act("updateList", s, TRUE, "resolved")
     ELSE /\ calls' = [calls EXCEPT ![s] =
                         [op |-> "updateList", pc |-> "updateDoc",
                          listId |-> listId, updates |-> updates]]
          /\ act' = Act("updateList", s, TRUE, "pending")
  /\ UNCHANGED << listFrame, db, idGen, fetched >>

\* updateList, lines 109-113: updateDoc settles; it rejects when the
\* document does not exist.
UpdateListDoc(s, ok) ==
  /\ calls[s].op = "updateList"
  /\ IF ok /\ Exists(LISTS_COLLECTION, calls[s].listId)
     THEN /\ db' = UpdateDoc(LISTS_COLLECTION, calls[s].listId, calls[s].updates)
          /\ act' = Act("updateList.updateDoc", s, TRUE, "resolved")
     ELSE /\ UNCHANGED db
          /\ act' = Act("updateList.updateDoc", s, FALSE, "Failed to update list")
  /\ calls' = [calls EXCEPT ![s] = Idle]
  /\ UNCHANGED << listFrame, idGen, fetched >>

ItemsOfList(listId) ==
  {i \in ItemIds : db[LIST_ITEMS_COLLECTION][i].listId = listId}
ItemsOfPair(listId, messageId) ==
  {i \in ItemIds : /\ db[LIST_ITEMS_COLLECTION][i].listId = listId
                   /\ db[LIST_ITEMS_COLLECTION][i].messageId = messageId}

\* The call record of a deleteList suspended on its getDocs.
DeleteListStarted(listId) ==
  [op |-> "deleteList", pc |-> "getDocs", listId |-> listId, pending |-> {},
   failed |-> FALSE]

\* deleteList, lines 119-129: up to the await of getDocs.
DeleteListCall(s, listId) ==
  /\ calls[s] = Idle
  /\ IF Uid(s) = NoUser
     THEN /\ UNCHANGED calls
          /\ act' = Act("deleteList", s, TRUE, "resolved")
     ELSE /\ calls' = [calls EXCEPT ![s] = DeleteListStarted(listId)]
          /\ act' = Act("deleteList", s, TRUE, "pending")
  /\ UNCHANGED << listFrame, db, idGen, fetched >>

\* ListView.handleDeleteList (part_008 lines 67-74) after its await: when
\* the deleteList it called resolves, setSelectedList(null) and
\* setConfirmDelete(null); when it throws, the handler ends there.  `out` is
\* what the promise of deleteList does at this step.
AfterDeleteList(s, out) ==
  IF s # 1 \/ view.deleting = Null \/ out \in {"pending", "-"} THEN view
  ELSE IF out = "resolved"
       THEN [view EXCEPT !.deleting = Null, !.confirmDelete = Null,
                         !.selectedList = Null]
       ELSE [view EXCEPT !.deleting = Null]

\* deleteList, lines 129-133: getDocs settles and one deleteDoc per item
\* found is issued; Promise.all of no promise resolves at once.
DeleteListGetDocs(s, ok) ==
  /\ calls[s].op = "deleteList"
  /\ calls[s].pc = "getDocs"
  /\ IF ok
     THEN /\ calls' = [calls EXCEPT ![s].pending = ItemsOfList(calls[s].listId),
                                    ![s].pc = IF ItemsOfList(calls[s].listId) = {}
                                              THEN "deleteDoc" ELSE "deleteItems"]
          /\ act' = Act("deleteList.getDocs", s, TRUE, "pending")
     ELSE /\ calls' = [calls EXCEPT ![s] = Idle]
          /\ act' = Act("deleteList.getDocs", s, FALSE, "Failed to delete list")
  /\ view' = AfterDeleteList(s, act'.out)
  /\ UNCHANGED << hookFrame, picker, db, idGen, fetched >>

\* Mutant of NextDeletePc: a rejected item delete does not stop the call
\* (Promise.allSettled instead of Promise.all).
NextDeletePcIgnoringFailure(thrown, rest) ==
  IF rest = {} THEN "deleteDoc" ELSE "deleteItems"

\* Where deleteList stands after one of its item deletes settled (lines
\* 133-139): Promise.all rejects with the first rejection and the call
\* throws from the catch; otherwise it goes on to line 136 once every delete
\* has resolved.  "drain": thrown, with deletes still in flight.
NextDeletePc(thrown, rest) ==
  IF thrown THEN (IF rest = {} THEN "done" ELSE "drain")
  ELSE IF rest = {} THEN "deleteDoc" ELSE "deleteItems"

\* deleteList, line 131-133: one of the issued deleteDoc settles.  The
\* deletes still in flight when the call throws land all the same.
DeleteListItem(s, item, ok) ==
  /\ calls[s].op = "deleteList"
  /\ calls[s].pc \in {"deleteItems", "drain"}
  /\ item \in calls[s].pending
  /\ db' = IF ok THEN DeleteDocs(LIST_ITEMS_COLLECTION, {item}) ELSE db
  /\ LET rest == calls[s].pending \ {item}
         thrown == calls[s].failed \/ ~ok
         pc == NextDeletePc(thrown, rest)
     IN /\ calls' = [calls EXCEPT ![s] =
                       IF pc = "done" THEN Idle
                       ELSE [@ EXCEPT !.pending = rest, !.pc = pc,
                                      !.failed = thrown]]
        /\ act' = ActArg("deleteList.deleteItem", s, ok,
                         IF calls[s].failed THEN "-"
                         ELSE IF ok THEN "pending" ELSE "Failed to delete list",
                         << calls[s].listId >>)
  /\ view' = AfterDeleteList(s, act'.out)
  /\ UNCHANGED << hookFrame, picker, idGen, fetched >>

\* deleteList, lines 136-139: the deleteDoc of the List settles.
DeleteListDoc(s, ok) ==
  /\ calls[s].op = "deleteList"
  /\ calls[s].pc = "deleteDoc"
  /\ IF ok
     THEN /\ db' = DeleteDocs(LISTS_COLLECTION, {calls[s].listId})
          /\ act' = ActArg("deleteList.deleteDoc", s, TRUE, "resolved",
                           << calls[s].listId >>)
     ELSE /\ UNCHANGED db
          /\ act' = Act("deleteList.deleteDoc", s, FALSE, "Failed to delete list")
  /\ calls' = [calls EXCEPT ![s] = Idle]
  /\ view' = AfterDeleteList(s, act'.out)
  /\ UNCHANGED << hookFrame, picker, idGen, fetched >>

\* addMessageToList, lines 146-157: up to the await of getDocs.  `second`
\* (history) marks a call made directly after a call of the same session
\* with the same arguments completed successfully.
AddMessageToListCall(s, listId, messageId) ==
  /\ calls[s] = Idle
  /\ idGen[LIST_ITEMS_COLLECTION] + InFlight("addMessageToList") < MaxItems
  /\ IF Uid(s) = NoUser
     THEN /\ UNCHANGED calls
          /\ act' = Act("addMessageToList", s, TRUE, "resolved")
     ELSE /\ calls' = [calls EXCEPT ![s] =
                         AddStarted(listId, messageId,
                                    /\ act.s = s
                                    /\ act.name \in {"addMessageToList.getDocs",
                                                     "addMessageToList.addDoc"}
                                    /\ act.out = "resolved"
                                    /\ act.arg[1] = listId
                                    /\ act.arg[2] = messageId)]
          /\ act' = Act("addMessageToList", s, TRUE, "pending")
  /\ UNCHANGED << listFrame, db, idGen, fetched >>

\* ChatPage.handleSelectList (part_003 lines 117-125) after its await: when
\* the addMessageToList it called resolves, setShowListPicker(false) and
\* setSelectedMessageForList(null); when it throws, the handler ends there.
AfterAddToList(s, out) ==
  IF s # 1 \/ picker.flow \notin {"add", "chained"} \/ out = "pending"
  THEN picker
  ELSE IF out = "resolved"
       THEN [picker EXCEPT !.flow = "none", !.captured = Null,
                           !.isOpen = FALSE, !.message = Null]
       ELSE [picker EXCEPT !.flow = "none", !.captured = Null]

\* The test of line 159 on the result of the existence query.
AlreadyInListNever(existing) == FALSE
AlreadyInList(existing) == existing # {}

\* addMessageToList, lines 157-161: getDocs settles; return if the pair is
\* already there.
AddMessageToListGetDocs(s, ok) ==
  /\ calls[s].op = "addMessageToList"
  /\ calls[s].pc = "getDocs"
  /\ IF ~ok
     THEN /\ calls' = [calls EXCEPT ![s] = Idle]
          /\ act' = Act("addMessageToList.getDocs", s, FALSE, "Failed to add to list")
     ELSE IF AlreadyInList(ItemsOfPair(calls[s].listId, calls[s].messageId))
          THEN /\ calls' = [calls EXCEPT ![s] = Idle]
               /\ act' = ActArg("addMessageToList.getDocs", s, TRUE, "resolved",
                                << calls[s].listId, calls[s].messageId,
                                   calls[s].second >>)
          ELSE /\ calls' = [calls EXCEPT ![s].pc = "addDoc"]
               /\ act' = Act("addMessageToList.getDocs", s, TRUE, "pending")
  /\ picker' = AfterAddToList(s, act'.out)
  /\ UNCHANGED << hookFrame, view, db, idGen, fetched >>

\* itemData of lines 163-168; addedAt is the server's creation rank.
ItemData(listId, messageId, addedAt) ==
  [listId |-> listId, messageId |-> messageId, addedAt |-> addedAt,
   completed |-> FALSE]

\* addMessageToList, lines 170-174: addDoc settles.
AddMessageToListAddDoc(s, ok) ==
  /\ calls[s].op = "addMessageToList"
  /\ calls[s].pc = "addDoc"
  /\ IF ok
     THEN /\ db' = AddDoc(LIST_ITEMS_COLLECTION,
                          ItemData(calls[s].listId, calls[s].messageId,
                                   NextId(LIST_ITEMS_COLLECTION)))
          /\ idGen' = [idGen EXCEPT ![LIST_ITEMS_COLLECTION] = @ + 1]
          /\ act' = ActArg("addMessageToList.addDoc", s, TRUE, "resolved",
                           << calls[s].listId, calls[s].messageId,
                                   calls[s].second >>)
     ELSE /\ UNCHANGED << db, idGen >>
          /\ act' = Act("addMessageToList.addDoc", s, FALSE, "Failed to add to list")
  /\ calls' = [calls EXCEPT ![s] = Idle]
  /\ picker' = AfterAddToList(s, act'.out)
  /\ UNCHANGED << hookFrame, view, fetched >>

\* removeFromList, lines 180-190: up to the await of getDocs.
RemoveFromListCall(s, listId, messageId) ==
  /\ calls[s] = Idle
  /\ IF Uid(s) = NoUser
     THEN /\ UNCHANGED calls
          /\ act' = Act("removeFromList", s, TRUE, "resolved")
     ELSE /\ calls' = [calls EXCEPT ![s] =
                         [op |-> "removeFromList", pc |-> "getDocs",
                          listId |-> listId, messageId |-> messageId,
                          pending |-> {}, found |-> {}, seen |-> 0,
                          failed |-> FALSE]]
          /\ act' = Act("removeFromList", s, TRUE, "pending")
  /\ UNCHANGED << listFrame, db, idGen, fetched >>

\* Mutant of MatchingItems: only the first match is deleted.
MatchingItemsFirstOnly(listId, messageId) ==
  LET all == ItemsOfPair(listId, messageId)
  IN  {i \in all : \A j \in all : i <= j}

\* snapshot.docs of the query of lines 185-190: every item of the pair.
MatchingItems(listId, messageId) == ItemsOfPair(listId, messageId)

\* removeFromList, lines 190-195: getDocs settles and one deleteDoc per match
\* is issued; Promise.all of no promise resolves at once.  History: `found`
\* keeps the matches and `seen` the newest ListItem id the store had given
\* out when the query read it.
RemoveFromListGetDocs(s, ok) ==
  /\ calls[s].op = "removeFromList"
  /\ calls[s].pc = "getDocs"
  /\ IF ok
     THEN LET docs == MatchingItems(calls[s].listId, calls[s].messageId)
          IN  IF docs = {}
              THEN /\ calls' = [calls EXCEPT ![s] = Idle]
                   /\ act' = ActArg("removeFromList.getDocs", s, TRUE, "resolved",
                                    << calls[s].listId, calls[s].messageId, {},
                                       idGen[LIST_ITEMS_COLLECTION] >>)
              ELSE /\ calls' = [calls EXCEPT ![s].pending = docs,
                                             ![s].found = docs,
                                             ![s].seen =
                                               idGen[LIST_ITEMS_COLLECTION],
                                             ![s].pc = "deleteItems"]
                   /\ act' = Act("removeFromList.getDocs", s, TRUE, "pending")
     ELSE /\ calls' = [calls EXCEPT ![s] = Idle]
          /\ act' = Act("removeFromList.getDocs", s, FALSE,
                        "Failed to remove from list")
  /\ UNCHANGED << listFrame, db, idGen, fetched >>

\* removeFromList, lines 192-199: one of the issued deleteDoc settles.
\* Promise.all rejects with the first rejection and the call throws from the
\* catch; the deletes still in flight then land all the same.
RemoveFromListItem(s, item, ok) ==
  /\ calls[s].op = "removeFromList"
  /\ calls[s].pc = "deleteItems"
  /\ item \in calls[s].pending
  /\ db' = IF ok THEN DeleteDocs(LIST_ITEMS_COLLECTION, {item}) ELSE db
  /\ LET rest == calls[s].pending \ {item}
         thrown == calls[s].failed \/ ~ok
     IN /\ calls' = [calls EXCEPT ![s] =
                       IF rest = {} THEN Idle
                       ELSE [@ EXCEPT !.pending = rest, !.failed = thrown]]
        /\ act' = ActArg("removeFromList.deleteItem", s, ok,
                         IF calls[s].failed THEN "-"
                         ELSE IF ~ok THEN "Failed to remove from list"
                         ELSE IF rest = {} THEN "resolved" ELSE "pending",
                         << calls[s].listId, calls[s].messageId,
                            calls[s].found, calls[s].seen >>)
  /\ UNCHANGED << listFrame, idGen, fetched >>

\* toggleItemCompleted, lines 205-211: up to the await of getDoc.  History:
\* `clean` says that no other write to the item landed since the call read
\* it; for a call made directly after a completed toggle of the same item,
\* `after` is the session of that toggle and, if that toggle was itself
\* clean, `restores` is the value the item had before it, as long as no
\* other write to the item has landed since.
ToggleItemCompletedCall(s, itemId) ==
  /\ calls[s] = Idle
  /\ IF Uid(s) = NoUser
     THEN /\ UNCHANGED calls
          /\ act' = Act("toggleItemCompleted", s, TRUE, "resolved")
     ELSE /\ calls' = [calls EXCEPT ![s] =
                         [op |-> "toggleItemCompleted", pc |-> "getDoc",
                          itemId |-> itemId, currentCompleted |-> FALSE,
                          clean |-> TRUE,
                          restores |->
                            IF /\ act.name = "toggleItemCompleted.updateDoc"
                               /\ act.ok /\ act.arg[1] = itemId /\ act.arg[4]
                            THEN Some(act.arg[3]) ELSE None,
                          after |->
                            IF /\ act.name = "toggleItemCompleted.updateDoc"
                               /\ act.ok /\ act.arg[1] = itemId
                            THEN act.s ELSE 0]]
          /\ act' = Act("toggleItemCompleted", s, TRUE, "pending")
  /\ UNCHANGED << listFrame, db, idGen, fetched >>

\* Mutant of CurrentCompleted: the stored value is not read.
CurrentCompletedIgnored(data) == FALSE

\* itemSnap.data().completed || false (line 214).
CurrentCompleted(data) ==
  IF "completed" \in DOMAIN data THEN data.completed ELSE FALSE

\* toggleItemCompleted, lines 211-215: getDoc settles; nothing is written
\* for a missing item.
ToggleItemCompletedGetDoc(s, ok) ==
  /\ calls[s].op = "toggleItemCompleted"
  /\ calls[s].pc = "getDoc"
  /\ LET itemSnap == GetDoc(LIST_ITEMS_COLLECTION, calls[s].itemId)
     IN  IF ~ok
         THEN /\ calls' = [calls EXCEPT ![s] = Idle]
              /\ act' = Act("toggleItemCompleted.getDoc", s, FALSE,
                            "Failed to update item")
         ELSE IF itemSnap = None
              THEN /\ calls' = [calls EXCEPT ![s] = Idle]
                   /\ act' = ActArg("toggleItemCompleted.getDoc", s, TRUE,
                                    "resolved", << calls[s].itemId >>)
              ELSE /\ calls' = [calls EXCEPT
                        ![s].pc = "updateDoc",
                        ![s].currentCompleted = CurrentCompleted(itemSnap[1])]
                   /\ act' = Act("toggleItemCompleted.getDoc", s, TRUE, "pending")
  /\ UNCHANGED << listFrame, db, idGen, fetched >>

\* Mutant of CompletedPatch: the negation of the stored value (a toggle
\* applied by the store) instead of the negation of the value read.
CompletedPatchFromStored(currentCompleted, stored) == [completed |-> ~stored]

\* { completed: !currentCompleted } (line 215): computed from the value the
\* call read, whatever the store holds by now.
CompletedPatch(currentCompleted, stored) == [completed |-> ~currentCompleted]

\* toggleItemCompleted, lines 215-220: updateDoc settles; it rejects when
\* the item has been deleted meanwhile.  The history carries the item, the
\* value read, the value stored before the write, and the call's `clean`,
\* `restores` and `after`.
ToggleItemCompletedUpdateDoc(s, ok) ==
  /\ calls[s].op = "toggleItemCompleted"
  /\ calls[s].pc = "updateDoc"
  /\ LET c == calls[s]
         other == 3 - s
     IN  IF ok /\ Exists(LIST_ITEMS_COLLECTION, c.itemId)
         THEN LET stored == db[LIST_ITEMS_COLLECTION][c.itemId].completed
              IN  /\ db' = UpdateDoc(LIST_ITEMS_COLLECTION, c.itemId,
                                     CompletedPatch(c.currentCompleted, stored))
                  /\ calls' = [calls EXCEPT
                        ![s] = Idle,
                        ![other] = IF @.op = "toggleItemCompleted"
                                      /\ @.itemId = c.itemId
                                   THEN [@ EXCEPT
                                           !.clean = (@ /\ calls[other].pc = "getDoc"),
                                           !.restores = None]
                                   ELSE @]
                  /\ act' = ActArg("toggleItemCompleted.updateDoc", s, TRUE,
                                   "resolved",
                                   << c.itemId, c.currentCompleted, stored,
                                      c.clean, c.restores, c.after >>)
         ELSE /\ UNCHANGED db
              /\ calls' = [calls EXCEPT ![s] = Idle]
              /\ act' = Act("toggleItemCompleted.updateDoc", s, FALSE,
                            "Failed to update item")
  /\ UNCHANGED << listFrame, idGen, fetched >>

\* Mutant of WithMessages: items without a message left out.
HasMessage(x) == x.message # None
WithMessagesDroppingMissing(items) ==
  SelectSeq([i \in 1..Len(items) |->
               items[i] @@ [message |-> GetDoc(UL_MESSAGES_COLLECTION,
                                               items[i].messageId)]],
            HasMessage)

\* items.map of lines 258-261 over the messages read from the collection
\* useLists names MESSAGES_COLLECTION (line 22): message is null (None) when
\* that collection has no such document.
WithMessages(items) ==
  [i \in 1..Len(items) |->
     items[i] @@ [message |-> GetDoc(UL_MESSAGES_COLLECTION, items[i].messageId)]]

\* getListItems, lines 226-234: up to the await of getDocs (no userId test).
GetListItemsCall(listId) ==
  /\ calls[1] = Idle
  /\ calls' = [calls EXCEPT ![1] =
                 [op |-> "getListItems", pc |-> "getDocs", listId |-> listId,
                  items |-> << >>]]
  /\ act' = Act("getListItems", 1, TRUE, "pending")
  /\ UNCHANGED << listFrame, db, idGen, fetched >>

\* getListItems, lines 234-246: getDocs settles; with no item there is no
\* message to read and the call returns [].
GetListItemsGetDocs(ok) ==
  /\ calls[1].op = "getListItems"
  /\ calls[1].pc = "getDocs"
  /\ LET items == DocsDesc(LIST_ITEMS_COLLECTION, ItemsOfList(calls[1].listId),
                           "addedAt")
     IN IF ~ok
        THEN /\ calls' = [calls EXCEPT ![1] = Idle]
             /\ act' = Act("getListItems.getDocs", 1, FALSE,
                           "Failed to load list items")
             /\ UNCHANGED fetched
        ELSE IF items = << >>
             THEN /\ calls' = [calls EXCEPT ![1] = Idle]
                  /\ fetched' = [listId |-> calls[1].listId, items |-> << >>]
                  /\ act' = ActArg("getListItems.getDocs", 1, TRUE, "resolved",
                                   << calls[1].listId >>)
             ELSE /\ calls' = [calls EXCEPT ![1].pc = "getMessages",
                                            ![1].items = items]
                  /\ act' = Act("getListItems.getDocs", 1, TRUE, "pending")
                  /\ UNCHANGED fetched
  /\ UNCHANGED << listFrame, db, idGen >>

\* getListItems, lines 246-264: the message reads settle.
GetListItemsMessages(ok) ==
  /\ calls[1].op = "getListItems"
  /\ calls[1].pc = "getMessages"
  /\ IF ok
     THEN /\ fetched' = [listId |-> calls[1].listId,
                         items |-> WithMessages(calls[1].items)]
          /\ act' = ActArg("getListItems.getMessages", 1, TRUE, "resolved",
                           << calls[1].listId >>)
     ELSE /\ UNCHANGED fetched
          /\ act' = Act("getListItems.getMessages", 1, FALSE,
                        "Failed to load list items")
  /\ calls' = [calls EXCEPT ![1] = Idle]
  /\ UNCHANGED << listFrame, db, idGen >>

(* ----------------------- ListView (part_008) --------------------------- *)

\* The ListView of session 1.  selectedList and confirmDelete hold the id of
\* the List (the component keeps the List object it was given, and reads
\* only its id, name, emoji and type); fetches are the getListItems promises
\* of the fetch effect still in flight; deleting is the list whose deleteList
\* handleDeleteList awaits.  The overlay's buttons exist while isOpen.
ShownLists == {lists[i].id : i \in 1..Len(lists)}
OwnShownLists == {lists[i].id : i \in {k \in 1..Len(lists) :
                                         lists[k].ownerId = userId}}

\* ChatPage, Header onListsClick (part_003 line 151); ChatPage renders
\* nothing without a user (line 147).
ViewOpen ==
  /\ userId # NoUser
  /\ ~view.isOpen
  /\ view' = [view EXCEPT !.isOpen = TRUE]
  /\ act' = Act("view.open", 1, TRUE, "-")
  /\ UNCHANGED << hookFrame, picker, db, idGen, calls, fetched >>

\* A row of the list of lists (line 303), shown while no list is selected,
\* and the fetch effect of lines 34-42 that the new selectedList runs: up
\* to the await inside getListItems.
ViewPick(l) ==
  /\ view.isOpen
  /\ view.selectedList = Null
  /\ l \in ShownLists
  /\ Len(view.fetches) < MaxPending
  /\ view' = [view EXCEPT !.selectedList = l, !.loading = TRUE,
                          !.fetches = Append(@, [listId |-> l, pc |-> "getDocs",
                                                 items |-> << >>])]
  /\ act' = ActArg("view.pick", 1, TRUE, "pending", << l >>)
  /\ UNCHANGED << hookFrame, picker, db, idGen, calls, fetched >>

\* getListItems (useLists.ts lines 234-246) called by the fetch effect: its
\* getDocs settles; then setItems (line 38) or console.error (line 39), and
\* setLoading(false) (line 40), once the promise has settled.
ViewFetchGetDocs(i, ok) ==
  /\ i \in 1..Len(view.fetches)
  /\ view.fetches[i].pc = "getDocs"
  /\ LET docs == DocsDesc(LIST_ITEMS_COLLECTION,
                          ItemsOfList(view.fetches[i].listId), "addedAt")
     IN IF ~ok
        THEN /\ view' = [view EXCEPT !.fetches = RemoveAt(@, i),
                                     !.loading = FALSE]
             /\ act' = Act("view.fetch.getDocs", 1, FALSE,
                           "Failed to load list items")
        ELSE IF docs = << >>
             THEN /\ view' = [view EXCEPT !.fetches = RemoveAt(@, i),
                                          !.items = << >>, !.loading = FALSE]
                  /\ act' = Act("view.fetch.getDocs", 1, TRUE, "resolved")
             ELSE /\ view' = [view EXCEPT !.fetches[i].pc = "getMessages",
                                          !.fetches[i].items = docs]
                  /\ act' = Act("view.fetch.getDocs", 1, TRUE, "pending")
  /\ UNCHANGED << hookFrame, picker, db, idGen, calls, fetched >>

\* getListItems (lines 246-264) called by the fetch effect: the message
\* reads settle.
ViewFetchMessages(i, ok) ==
  /\ i \in 1..Len(view.fetches)
  /\ view.fetches[i].pc = "getMessages"
  /\ view' = [view EXCEPT !.fetches = RemoveAt(@, i), !.loading = FALSE,
                          !.items = IF ok THEN WithMessages(view.fetches[i].items)
                                    ELSE @]
  /\ act' = Act("view.fetch.getMessages", 1, ok,
                IF ok THEN "resolved" ELSE "Failed to load list items")
  /\ UNCHANGED << hookFrame, picker, db, idGen, calls, fetched >>

\* The back button of lines 118-123, shown while a list is selected.
ViewBack ==
  /\ view.isOpen
  /\ view.selectedList # Null
  /\ view' = [view EXCEPT !.selectedList = Null, !.items = << >>]
  /\ act' = Act("view.back", 1, TRUE, "-")
  /\ UNCHANGED << hookFrame, picker, db, idGen, calls, fetched >>

\* handleClose (lines 84-89), from the backdrop (line 105) or the close
\* button (line 154); onClose is ChatPage's setShowListView(false).
ViewClose ==
  /\ view.isOpen
  /\ view' = [view EXCEPT !.selectedList = Null, !.items = << >>,
                          !.confirmDelete = Null, !.isOpen = FALSE]
  /\ act' = Act("view.close", 1, TRUE, "-")
  /\ UNCHANGED << hookFrame, picker, db, idGen, calls, fetched >>

\* handleNavigate (lines 76-82) from an item whose message was found (line
\* 232), with ChatPage.handleNavigateToMessage (part_003 lines 142-145):
\* the overlay closes and the ListView keeps its state.
ViewNavigate ==
  /\ view.isOpen
  /\ view.selectedList # Null
  /\ ~view.loading
  /\ \E i \in 1..Len(view.items) : view.items[i].message # None
  /\ view' = [view EXCEPT !.isOpen = FALSE]
  /\ act' = Act("view.navigate", 1, TRUE, "-")
  /\ UNCHANGED << hookFrame, picker, db, idGen, calls, fetched >>

\* The bin of an own list in the list of lists (line 354).
ViewAskDelete(l) ==
  /\ view.isOpen
  /\ view.selectedList = Null
  /\ l \in OwnShownLists
  /\ view.confirmDelete # l
  /\ view' = [view EXCEPT !.confirmDelete = l]
  /\ act' = ActArg("view.askDelete", 1, TRUE, "-", << l >>)
  /\ UNCHANGED << hookFrame, picker, db, idGen, calls, fetched >>

\* Cancel of the confirmation (line 340).
ViewCancelDelete ==
  /\ view.isOpen
  /\ view.selectedList = Null
  /\ view.confirmDelete \in OwnShownLists
  /\ view' = [view EXCEPT !.confirmDelete = Null]
  /\ act' = Act("view.cancelDelete", 1, TRUE, "-")
  /\ UNCHANGED << hookFrame, picker, db, idGen, calls, fetched >>

\* Delete of the confirmation (line 346): handleDeleteList (lines 67-69) up
\* to the await inside deleteList (useLists.ts lines 119-129).  One
\* handleDeleteList at a time.
ViewDeleteList ==
  /\ view.isOpen
  /\ view.selectedList = Null
  /\ view.confirmDelete \in OwnShownLists
  /\ view.deleting = Null
  /\ calls[1] = Idle
  /\ calls' = [calls EXCEPT ![1] = DeleteListStarted(view.confirmDelete)]
  /\ view' = [view EXCEPT !.deleting = view.confirmDelete]
  /\ act' = ActArg("view.deleteList", 1, TRUE, "pending",
                   << view.confirmDelete >>)
  /\ UNCHANGED << hookFrame, picker, db, idGen, fetched >>

(* ------------------- ListPicker (ListPicker.tsx) ----------------------- *)

\* The ListPicker of session 1 with the ChatPage state it is rendered from.
\* message is the id of selectedMessageForList; flow says what the running
\* handler awaits ("create": handleCreateList its createList, "add":
\* handleSelectList its addMessageToList, "chained": the same called by
\* handleCreateList) and captured is the
\* selectedMessageForList of the render whose handlers are running.  One
\* handler at a time.

\* ChatPage.handleSwipeAddToList (part_003 lines 111-115) on a message of
\* the window; the overlays cover the message list while they are open.
PickerSwipe(m) ==
  /\ userId # NoUser
  /\ m \in {messages[i].id : i \in 1..Len(messages)}
  /\ ~picker.isOpen
  /\ ~view.isOpen
  /\ picker' = [picker EXCEPT !.isOpen = TRUE, !.message = m]
  /\ act' = ActArg("picker.swipe", 1, TRUE, "-", << m >>)
  /\ UNCHANGED << hookFrame, view, db, idGen, calls, fetched >>

\* ListPicker.handleClose (lines 66-69) from the backdrop or the close
\* button, with ChatPage's onClose (part_003 lines 188-191).
PickerClose ==
  /\ picker.isOpen
  /\ picker' = [picker EXCEPT !.isOpen = FALSE, !.message = Null]
  /\ act' = Act("picker.close", 1, TRUE, "-")
  /\ UNCHANGED << hookFrame, view, db, idGen, calls, fetched >>

\* A row of the picker (ListPicker.tsx line 254): handleSelectList up to the
\* await inside addMessageToList.
PickerSelect(l) ==
  /\ picker.isOpen
  /\ picker.message # Null
  /\ picker.flow = "none"
  /\ l \in ShownLists
  /\ calls[1] = Idle
  /\ idGen[LIST_ITEMS_COLLECTION] + InFlight("addMessageToList") < MaxItems
  /\ calls' = [calls EXCEPT ![1] = AddStarted(l, picker.message, FALSE)]
  /\ picker' = [picker EXCEPT !.flow = "add", !.captured = picker.message]
  /\ act' = ActArg("picker.select", 1, TRUE, "pending", << l, picker.message >>)
  /\ UNCHANGED << hookFrame, view, db, idGen, fetched >>

\* Create & Add (ListPicker.tsx lines 236-237): handleCreateList (lines
\* 36-46) up to the await inside createList (useLists.ts lines 70-89); the
\* button is disabled for a blank name and while creating.
PickerCreate(in) ==
  /\ picker.isOpen
  /\ picker.message # Null
  /\ ~picker.creating
  /\ picker.flow = "none"
  /\ Trim(in.name) # << >>
  /\ calls[1] = Idle
  /\ idGen[LISTS_COLLECTION] + InFlight("createList") < MaxLists
  /\ idGen[LIST_ITEMS_COLLECTION] + InFlight("addMessageToList") < MaxItems
  /\ calls' = [calls EXCEPT ![1] =
                 [op |-> "createList", pc |-> "addDoc", uid |-> userId,
                  in |-> [in EXCEPT !.name = Trim(in.name)]]]
  /\ picker' = [picker EXCEPT !.creating = TRUE, !.flow = "create",
                              !.captured = picker.message]
  /\ act' = ActArg("picker.create", 1, TRUE, "pending", << picker.message >>)
  /\ UNCHANGED << hookFrame, view, db, idGen, fetched >>

(* ==================== AuthProvider (part_002) ========================== *)

\* What no step of the AuthProvider or of useLongPress touches.
chatVars == << msgVars, userId, lists, listsLoading, listsError, listsSub,
               view, picker, db, idGen, calls, fetched >>

\* An account is named by its uid; the accounts of WHITELISTED_EMAILS
\* (config/firebase.ts lines 17-20) are the two users, "X" is a Google
\* account outside the list.  Every Google account has an email.
WHITELISTED_EMAILS == Users
Accounts == {"A", "X"}
NoAccount == NoUser       \* currentUser / firebaseUser / user === null

\* The test of line 47.
Whitelisted(fbUser) == fbUser # NoAccount /\ fbUser \in WHITELISTED_EMAILS

\* The state of the provider's first render (lines 35-38) with nobody
\* signed in: Firebase Auth calls the listener of line 45 once with the
\* initial account, then once per change of the signed-in uid, in order
\* (queue: the calls not yet made).  cbs are the listener calls suspended
\* at an await, signIn and signOut the state of the two handlers, profiles
\* the documents of 'duoboard_users' written.
AuthInit ==
  [current |-> NoAccount, lastUid |-> NoAccount, queue |-> << NoAccount >>,
   firebaseUser |-> NoAccount, user |-> NoAccount, loading |-> TRUE,
   error |-> NoError, cbs |-> << >>, signIn |-> "idle", signOut |-> "idle",
   profiles |-> {}]

\* Firebase Auth makes acc the signed-in account and schedules a listener
\* call when the uid differs from the one it notified last.
SetCurrent(a, acc) ==
  [a EXCEPT !.current = acc, !.lastUid = acc,
            !.queue = IF a.lastUid = acc THEN @ ELSE Append(@, acc)]

\* The onAuthStateChanged handler (lines 45-89) up to its first await, or
\* to its end in the third branch.
AuthDeliver ==
  /\ auth.queue # << >>
  /\ LET fbUser == Head(auth.queue)
         a == [auth EXCEPT !.queue = Tail(@), !.firebaseUser = fbUser]
     IN  auth' =
           IF Whitelisted(fbUser)
           THEN [a EXCEPT !.cbs = Append(@, [fbUser |-> fbUser, pc |-> "getDoc"])]
           ELSE IF fbUser # NoAccount
           THEN [a EXCEPT !.error = "Your email is not authorized to use this app.",
                          !.user = NoAccount,
                          !.cbs = Append(@, [fbUser |-> fbUser, pc |-> "signOut"])]
           ELSE [a EXCEPT !.user = NoAccount, !.error = NoError,
                          !.loading = FALSE]
  /\ act' = ActArg("auth.changed", 1, TRUE, "-", << Head(auth.queue) >>)
  /\ UNCHANGED << chatVars, press >>

\* Lines 50-57: the profile read settles; a failure is logged and the
\* handler goes on to the write of line 70.
AuthGetDoc(i, ok) ==
  /\ i \in 1..Len(auth.cbs)
  /\ auth.cbs[i].pc = "getDoc"
  /\ auth' = [auth EXCEPT !.cbs[i].pc = "setDoc"]
  /\ act' = Act("auth.getDoc", 1, ok, "pending")
  /\ UNCHANGED << chatVars, press >>

\* Lines 70-76 and 88: the profile write settles.
AuthSetDoc(i, ok) ==
  /\ i \in 1..Len(auth.cbs)
  /\ auth.cbs[i].pc = "setDoc"
  /\ auth' = IF ok
             THEN [auth EXCEPT !.cbs = RemoveAt(@, i),
                               !.profiles = @ \cup {auth.cbs[i].fbUser},
                               !.user = auth.cbs[i].fbUser,
                               !.error = NoError, !.loading = FALSE]
             ELSE [auth EXCEPT !.cbs = RemoveAt(@, i),
                               !.error = "Failed to update user profile",
                               !.loading = FALSE]
  /\ act' = ActArg("auth.setDoc", 1, ok, "resolved", << auth.cbs[i].fbUser >>)
  /\ UNCHANGED << chatVars, press >>

\* Lines 82 and 88: the firebaseSignOut of the second branch settles; when
\* it rejects, the handler ends there.
AuthRejectSignOut(i, ok) ==
  /\ i \in 1..Len(auth.cbs)
  /\ auth.cbs[i].pc = "signOut"
  /\ auth' = IF ok
             THEN [SetCurrent(auth, NoAccount) EXCEPT !.cbs = RemoveAt(@, i),
                                                      !.loading = FALSE]
             ELSE [auth EXCEPT !.cbs = RemoveAt(@, i)]
  /\ act' = Act("auth.rejectSignOut", 1, ok, IF ok THEN "resolved" ELSE "rejected")
  /\ UNCHANGED << chatVars, press >>

\* signInWithGoogle (lines 94-98) up to the await of the popup.  The login
\* page is what PublicRoute (part_004 lines 20-32) renders while loading is
\* false and user is null.
SignInWithGoogle ==
  /\ ~auth.loading
  /\ auth.user = NoAccount
  /\ auth.signIn = "idle"
  /\ Len(auth.cbs) + Len(auth.queue) < MaxAuthPending
  /\ auth' = [auth EXCEPT !.loading = TRUE, !.error = NoError,
                          !.signIn = "popup"]
  /\ act' = Act("signInWithGoogle", 1, TRUE, "pending")
  /\ UNCHANGED << chatVars, press >>

\* Lines 98-112: the popup settles with the account chosen, or fails.
SignInPopup(acc, ok) ==
  /\ auth.signIn = "popup"
  /\ auth' = IF ~ok
             THEN [auth EXCEPT !.error = "Failed to sign in. Please try again.",
                               !.loading = FALSE, !.signIn = "idle"]
             ELSE IF ~Whitelisted(acc)
             THEN [SetCurrent(auth, acc) EXCEPT
                     !.error = "Your email is not authorized to use this app.",
                     !.signIn = "signOut"]
             ELSE [SetCurrent(auth, acc) EXCEPT !.loading = FALSE,
                                               !.signIn = "idle"]
  /\ act' = ActArg("signIn.popup", 1, ok, IF ok THEN "pending" ELSE "resolved",
                   << acc >>)
  /\ UNCHANGED << chatVars, press >>

\* Lines 101-112: the firebaseSignOut of signInWithGoogle settles.
SignInSignOut(ok) ==
  /\ auth.signIn = "signOut"
  /\ auth' = IF ok
             THEN [SetCurrent(auth, NoAccount) EXCEPT !.loading = FALSE,
                                                      !.signIn = "idle"]
             ELSE [auth EXCEPT !.error = "Failed to sign in. Please try again.",
                               !.loading = FALSE, !.signIn = "idle"]
  /\ act' = Act("signIn.signOut", 1, ok, "resolved")
  /\ UNCHANGED << chatVars, press >>

\* signOut (lines 115-117) up to its await, from the header of the chat
\* page, which PrivateRoute (part_004 lines 6-18) renders while loading is
\* false and user is set.
SignOut ==
  /\ ~auth.loading
  /\ auth.user # NoAccount
  /\ auth.signOut = "idle"
  /\ auth' = [auth EXCEPT !.signOut = "pending"]
  /\ act' = Act("signOut", 1, TRUE, "pending")
  /\ UNCHANGED << chatVars, press >>

\* Lines 117-123: the firebaseSignOut of signOut settles.
SignOutSettle(ok) ==
  /\ auth.signOut = "pending"
  /\ auth' = IF ok
             THEN [SetCurrent(auth, NoAccount) EXCEPT !.user = NoAccount,
                                                      !.error = NoError,
                                                      !.signOut = "idle"]
             ELSE [auth EXCEPT !.error = "Failed to sign out. Please try again.",
                               !.signOut = "idle"]
  /\ act' = Act("signOut.settle", 1, ok, "resolved")
  /\ UNCHANGED << chatVars, press >>

(* ==================== useLongPress (useGestures.ts) ==================== *)

\* The hook's first render (lines 88-89).  timers are the timeouts armed
\* and neither fired nor cleared, each with the press that armed it; a press
\* runs from a start made while no press is running to the next clear.
\* History: pressNo counts the presses, running says that the current one
\* has not been cleared, invoked[p] counts the onLongPress calls of timers
\* armed by press p, late says that one of them came after its press was
\* cleared.
PressInit ==
  [timerRef |-> Null, pressing |-> FALSE, timers |-> {}, nextTimer |-> 0,
   pressNo |-> 0, running |-> FALSE, invoked |-> [p \in 1..MaxPresses |-> 0],
   late |-> FALSE]

\* start (lines 91-97): onTouchStart or onMouseDown.
PressStart ==
  /\ press.nextTimer < MaxTimers
  /\ press.running \/ press.pressNo < MaxPresses
  /\ LET p == IF press.running THEN press.pressNo ELSE press.pressNo + 1
         t == press.nextTimer + 1
     IN  press' = [press EXCEPT !.pressing = TRUE, !.timerRef = t,
                                !.timers = @ \cup {[id |-> t, press |-> p]},
                                !.nextTimer = t, !.pressNo = p,
                                !.running = TRUE]
  /\ act' = Act("press.start", 1, TRUE, "-")
  /\ UNCHANGED << chatVars, auth >>

\* The timeout of lines 93-96 fires.
PressTimeout(t) ==
  /\ t \in press.timers
  /\ press' = [press EXCEPT !.timers = @ \ {t}, !.pressing = FALSE,
                            !.invoked[t.press] = @ + 1,
                            !.late = @ \/ t.press < press.pressNo
                                       \/ ~press.running]
  /\ act' = ActArg("press.onLongPress", 1, TRUE, "-", << t.press >>)
  /\ UNCHANGED << chatVars, auth >>

\* clear (lines 99-105): onTouchEnd, onTouchMove, onMouseUp, onMouseLeave.
PressClear ==
  /\ press' = [press EXCEPT
                 !.timers = {t \in @ : t.id # press.timerRef},
                 !.timerRef = Null, !.pressing = FALSE, !.running = FALSE]
  /\ act' = Act("press.clear", 1, TRUE, "-")
  /\ UNCHANGED << chatVars, auth >>

(* =========================== specifications ============================ *)

\* The i-th message of a store filled by sendMessage(" hi ") calls of A, the
\* second one sent as a reply to the first, the third one with a replyTo
\* that names no message.
Canonical(i) == [senderId |-> "A", content |-> Some(<< "h", "i" >>),
                 imageUrl |-> None, timestamp |-> i,
                 replyTo |-> IF i = 2 THEN 1
                             ELSE IF i = 3 THEN DanglingId ELSE Null,
                 likes |-> {}]

\* The state of session 1 after the hooks' first render with userId
\* undefined, and of the bookkeeping of the run.
InitHooks(n) ==
  /\ pageSize = n
  /\ uploads = {}
  /\ nSends = 0
  /\ userId = NoUser
  /\ messages = << >>
  /\ loading = FALSE
  /\ loadingMore = FALSE
  /\ hasMore = TRUE
  /\ error = NoError
  /\ lastDocRef = Null
  /\ initialLoadRef = Null
  /\ cb = [loadingMore |-> FALSE, hasMore |-> TRUE]
  /\ sub = [open |-> FALSE, last |-> None]
  /\ snapPend = << >>
  /\ lmPend = << >>
  /\ calls = [s \in Sessions |-> Idle]
  /\ lists = << >>
  /\ listsLoading = FALSE
  /\ listsError = NoError
  /\ listsSub = [open |-> FALSE, last |-> None]
  /\ fetched = [listId |-> Null, items |-> << >>]
  /\ view = [isOpen |-> FALSE, selectedList |-> Null, items |-> << >>,
             loading |-> FALSE, confirmDelete |-> Null, deleting |-> Null,
             fetches |-> << >>]
  /\ picker = [isOpen |-> FALSE, message |-> Null, creating |-> FALSE,
               flow |-> "none", captured |-> Null]
  /\ auth = AuthInit
  /\ press = PressInit
  /\ likeHist = [uid |-> NoUser, messageId |-> Null, before |-> {},
                 clean |-> FALSE, pair |-> FALSE]
  /\ act = Act("init", 0, TRUE, "-")

\* The state after the hooks' first render with userId undefined, over a
\* store into which `stored` messages have been sent.
InitWith(n, stored) ==
  /\ InitHooks(n)
  /\ db = [c \in {UM_MESSAGES_COLLECTION, UL_MESSAGES_COLLECTION,
                  LISTS_COLLECTION, LIST_ITEMS_COLLECTION} |->
             IF c = UM_MESSAGES_COLLECTION
             THEN [i \in 1..stored |-> Canonical(i)] ELSE << >>]
  /\ idGen = [c \in {UM_MESSAGES_COLLECTION, UL_MESSAGES_COLLECTION,
                     LISTS_COLLECTION, LIST_ITEMS_COLLECTION} |->
                IF c = UM_MESSAGES_COLLECTION THEN stored ELSE 0]

\* The same over a store that also holds the list A created with the first
\* of ListInputs and, with `items`, the ListItem of an addMessageToList(1, 1).
InitWithList(n, stored, items) ==
  /\ InitHooks(n)
  /\ db = [c \in {UM_MESSAGES_COLLECTION, UL_MESSAGES_COLLECTION,
                  LISTS_COLLECTION, LIST_ITEMS_COLLECTION} |->
             IF c = UM_MESSAGES_COLLECTION
             THEN [i \in 1..stored |-> Canonical(i)]
             ELSE IF c = LISTS_COLLECTION
             THEN [i \in 1..1 |->
                     ListData("A", [name |-> << "G" >>, visibility |-> "private",
                                    type |-> "checklist", emoji |-> None], 1)]
             ELSE IF c = LIST_ITEMS_COLLECTION
             THEN [i \in 1..items |-> ItemData(1, 1, i)]
             ELSE << >>]
  /\ idGen = [c \in {UM_MESSAGES_COLLECTION, UL_MESSAGES_COLLECTION,
                     LISTS_COLLECTION, LIST_ITEMS_COLLECTION} |->
                IF c = UM_MESSAGES_COLLECTION THEN stored
                ELSE IF c = LISTS_COLLECTION THEN 1
                ELSE IF c = LIST_ITEMS_COLLECTION THEN items ELSE 0]

FeedNext ==
  \/ Render
  \/ \E u \in {NoUser, "A"} : SetUser(u)
  \/ Deliver
  \/ \E i \in 1..MaxPending, ok \in BOOLEAN : DeliverResolve(i, ok)
  \/ SnapshotError
  \/ LoadMoreCall
  \/ \E i \in 1..MaxPending, ok \in BOOLEAN : LoadMoreGetDocs(i, ok)
  \/ \E i \in 1..MaxPending, ok \in BOOLEAN : LoadMoreReplies(i, ok)

\* Session 1 is driven with every input; session 2 contributes the writes
\* of the other party: plain messages and likes of the oldest message.
SendNext ==
  \/ \E c \in Contents, r \in ReplyArgs : SendMessageCall(1, c, r)
  \/ SendMessageCall(2, << "h", "i" >>, Null)
  \/ \E s \in Sessions, ok \in BOOLEAN : SendAddDoc(s, ok)
  \/ \E v \in BOOLEAN : SendDrawingCall(1, v, Null)
  \/ \E ok \in BOOLEAN : SendDrawingUpload(1, ok)
  \/ \E ok \in BOOLEAN : SendDrawingUrl(1, ok)

LikeNext ==
  \/ \E m \in LikeTargets : ToggleLikeCall(1, m)
  \/ ToggleLikeCall(2, 1)
  \/ \E s \in Sessions, ok \in BOOLEAN : ToggleLikeGetDoc(s, ok)
  \/ \E s \in Sessions, ok \in BOOLEAN : ToggleLikeUpdateDoc(s, ok)
  \/ ToggleLikePatch

\* The feed steps the message operations are interleaved with: activation
\* and deliveries.
FeedMin ==
  \/ SetUser("A")
  \/ Deliver
  \/ \E i \in 1..MaxPending : DeliverResolve(i, TRUE)

\* sendMessage / sendDrawing of both sessions under the live feed of
\* session 1, with the scaled page.
InitSend == \E stored \in {0, ScaledPage + 1} : InitWith(ScaledPage, stored)
SpecSend == InitSend /\ [][FeedMin \/ SendNext]_vars

\* toggleLike of both sessions under the live feed of session 1.
InitLikes == \E stored \in {1, ScaledPage + 1} : InitWith(ScaledPage, stored)
SpecLikes == InitLikes /\ [][FeedMin \/ LikeNext]_vars

\* The feed of session 1 over a static store, with the scaled page: every
\* feed step, failures and deactivation included.
InitFeed == \E stored \in 0..(2 * ScaledPage + 1) : InitWith(ScaledPage, stored)
SpecFeed == InitFeed /\ [][FeedNext]_vars

\* Activation, deliveries and loadMore without I/O failures.
FeedCore ==
  \/ Render
  \/ SetUser("A")
  \/ Deliver
  \/ \E i \in 1..MaxPending : DeliverResolve(i, TRUE)
  \/ LoadMoreCall
  \/ \E i \in 1..MaxPending : LoadMoreGetDocs(i, TRUE)
  \/ \E i \in 1..MaxPending : LoadMoreReplies(i, TRUE)

\* The feed of session 1 over a static store, with the source's page size.
PagingSizes == {k * MESSAGES_PER_PAGE + d : k \in 0..MaxPages, d \in {-1, 0, 1}}
                 \cap Nat
InitPaging == \E stored \in PagingSizes : InitWith(MESSAGES_PER_PAGE, stored)
SpecPaging == InitPaging /\ [][FeedCore]_vars

\* The list operations of session 1 alone, each with its I/O failures.
ListInputIds == 1..MaxLists
ListMessageIds == {1, 2}
ItemsNextOf1 ==
  \/ \E l \in {1, 2}, m \in ListMessageIds : AddMessageToListCall(1, l, m)
  \/ \E ok \in BOOLEAN : AddMessageToListGetDocs(1, ok)
  \/ \E ok \in BOOLEAN : AddMessageToListAddDoc(1, ok)
  \/ DeleteListCall(1, 1)
  \/ \E ok \in BOOLEAN : DeleteListGetDocs(1, ok)
  \/ \E i \in 1..MaxItems, ok \in BOOLEAN : DeleteListItem(1, i, ok)
  \/ \E ok \in BOOLEAN : DeleteListDoc(1, ok)
  \/ GetListItemsCall(1)
  \/ \E ok \in BOOLEAN : GetListItemsGetDocs(ok)
  \/ \E ok \in BOOLEAN : GetListItemsMessages(ok)

InitItems == InitWith(ScaledPage, 0)

\* One caller: list items are added, listed and deleted by session 1 only.
SpecItemsSeq ==
  InitItems /\ [][ \E u \in {NoUser, "A"} : SetUser(u) \/ ItemsNextOf1 ]_vars

\* Two callers: session 1 sends a message and works on list 1 while session
\* 2 adds message 1 to list 1.
ItemsNext ==
  \/ SetUser("A")
  \/ SendMessageCall(1, << "h", "i" >>, Null)
  \/ SendAddDoc(1, TRUE)
  \/ \E m \in ListMessageIds : AddMessageToListCall(1, 1, m)
  \/ AddMessageToListCall(2, 1, 1)
  \/ \E s \in Sessions, ok \in BOOLEAN : AddMessageToListGetDocs(s, ok)
  \/ \E s \in Sessions, ok \in BOOLEAN : AddMessageToListAddDoc(s, ok)
  \/ DeleteListCall(1, 1)
  \/ \E ok \in BOOLEAN : DeleteListGetDocs(1, ok)
  \/ \E i \in 1..MaxItems, ok \in BOOLEAN : DeleteListItem(1, i, ok)
  \/ \E ok \in BOOLEAN : DeleteListDoc(1, ok)
  \/ GetListItemsCall(1)
  \/ \E ok \in BOOLEAN : GetListItemsGetDocs(ok)
  \/ \E ok \in BOOLEAN : GetListItemsMessages(ok)
SpecItems == InitItems /\ [][ItemsNext]_vars

\* The lists subscription of session 1 under identity changes, while both
\* sessions create lists and session 1 changes their visibility.
VisibilityNext ==
  \/ \E u \in Users \cup {NoUser} : SetUser(u)
  \/ ListsDeliver
  \/ ListsSnapshotError
  \/ \E s \in Sessions, in \in ListInputs : CreateListCall(s, in)
  \/ \E s \in Sessions, ok \in BOOLEAN : CreateListAddDoc(s, ok)
  \/ \E l \in ListInputIds, u \in ListUpdates : UpdateListCall(1, l, u)
  \/ \E ok \in BOOLEAN : UpdateListDoc(1, ok)
SpecVisibility == InitItems /\ [][VisibilityNext]_vars


\* deleteList of session 1 on a list it created and filled, while session 2
\* adds message 1 to that list; every I/O step may fail.
DeleteNext ==
  \/ SetUser("A")
  \/ \E in \in {i \in ListInputs : i.name = << "G" >>} : CreateListCall(1, in)
  \/ \E ok \in BOOLEAN : CreateListAddDoc(1, ok)
  \/ \E m \in ListMessageIds : AddMessageToListCall(1, 1, m)
  \/ AddMessageToListCall(2, 1, 1)
  \/ \E s \in Sessions, ok \in BOOLEAN : AddMessageToListGetDocs(s, ok)
  \/ \E s \in Sessions, ok \in BOOLEAN : AddMessageToListAddDoc(s, ok)
  \/ DeleteListCall(1, 1)
  \/ \E ok \in BOOLEAN : DeleteListGetDocs(1, ok)
  \/ \E i \in 1..MaxItems, ok \in BOOLEAN : DeleteListItem(1, i, ok)
  \/ \E ok \in BOOLEAN : DeleteListDoc(1, ok)
SpecDelete == InitItems /\ [][DeleteNext]_vars

\* The message subscription under identity changes between the two users
\* (AuthProvider can replace the signed-in user without a sign-out in
\* between), with deliveries that suspend on their reply resolution.
TeardownNext ==
  \/ \E u \in Users : SetUser(u)
  \/ Deliver
  \/ \E i \in 1..MaxPending, ok \in BOOLEAN : DeliverResolve(i, ok)
SpecTeardown == InitFeed /\ [][TeardownNext]_vars

\* loadMore of session 1 under its live feed while the other party sends
\* plain messages; no I/O fails, and the reply resolutions of the deliveries
\* complete in arrival order.
LiveNext ==
  \/ Render
  \/ SetUser("A")
  \/ Deliver
  \/ DeliverResolve(1, TRUE)
  \/ LoadMoreCall
  \/ \E i \in 1..MaxPending : LoadMoreGetDocs(i, TRUE)
  \/ \E i \in 1..MaxPending : LoadMoreReplies(i, TRUE)
  \/ SendMessageCall(2, << "h", "i" >>, Null)
  \/ SendAddDoc(2, TRUE)
InitLive == InitWith(ScaledPage, ScaledPage + 1)
SpecLive == InitLive /\ [][LiveNext]_vars

\* The feed of session 1 with the source's page size while the other party
\* sends plain messages.
PagingLiveNext ==
  \/ FeedCore
  \/ SendMessageCall(2, << "h", "i" >>, Null)
  \/ SendAddDoc(2, TRUE)
SpecPagingLive == InitPaging /\ [][PagingLiveNext]_vars

\* toggleLike on message 1 and toggleItemCompleted on item 1 (and on a
\* missing item) by both sessions, every I/O step of which may fail.
ItemTargets == {1, DanglingId}
TogglesNext ==
  \/ SetUser("A")
  \/ \E s \in Sessions : ToggleLikeCall(s, 1)
  \/ \E s \in Sessions, ok \in BOOLEAN : ToggleLikeGetDoc(s, ok)
  \/ \E s \in Sessions, ok \in BOOLEAN : ToggleLikeUpdateDoc(s, ok)
  \/ ToggleLikePatch
  \/ \E s \in Sessions, i \in ItemTargets : ToggleItemCompletedCall(s, i)
  \/ \E s \in Sessions, ok \in BOOLEAN : ToggleItemCompletedGetDoc(s, ok)
  \/ \E s \in Sessions, ok \in BOOLEAN : ToggleItemCompletedUpdateDoc(s, ok)
InitToggles == InitWithList(ScaledPage, 1, 1)
SpecToggles == InitToggles /\ [][TogglesNext]_vars

\* toggleLike of session 1 under its live feed, over a store of one page, so
\* that the window holds the liked message and another.
LikesPageNext ==
  \/ FeedMin
  \/ \E m \in LikeTargets : ToggleLikeCall(1, m)
  \/ \E ok \in BOOLEAN : ToggleLikeGetDoc(1, ok)
  \/ \E ok \in BOOLEAN : ToggleLikeUpdateDoc(1, ok)
  \/ ToggleLikePatch
InitLikesPage == InitWith(ScaledPage, ScaledPage)
SpecLikesPage == InitLikesPage /\ [][LikesPageNext]_vars

\* Every writing operation of the two hooks, called by session 1 one after
\* the other with every I/O outcome, over a store that holds one message,
\* one list and one item.
WritesNext ==
  \/ SetUser("A")
  \/ \E c \in Contents : SendMessageCall(1, c, 1)
  \/ \E ok \in BOOLEAN : SendAddDoc(1, ok)
  \/ SendDrawingCall(1, TRUE, Null)
  \/ \E ok \in BOOLEAN : SendDrawingUpload(1, ok)
  \/ \E ok \in BOOLEAN : SendDrawingUrl(1, ok)
  \/ ToggleLikeCall(1, 1)
  \/ \E ok \in BOOLEAN : ToggleLikeGetDoc(1, ok)
  \/ \E ok \in BOOLEAN : ToggleLikeUpdateDoc(1, ok)
  \/ ToggleLikePatch
  \/ \E in \in ListInputs : CreateListCall(1, in)
  \/ \E ok \in BOOLEAN : CreateListAddDoc(1, ok)
  \/ \E u \in ListUpdates : UpdateListCall(1, 1, u)
  \/ \E ok \in BOOLEAN : UpdateListDoc(1, ok)
  \/ DeleteListCall(1, 1)
  \/ \E ok \in BOOLEAN : DeleteListGetDocs(1, ok)
  \/ \E i \in 1..MaxItems, ok \in BOOLEAN : DeleteListItem(1, i, ok)
  \/ \E ok \in BOOLEAN : DeleteListDoc(1, ok)
  \/ \E m \in ListMessageIds : AddMessageToListCall(1, 1, m)
  \/ \E ok \in BOOLEAN : AddMessageToListGetDocs(1, ok)
  \/ \E ok \in BOOLEAN : AddMessageToListAddDoc(1, ok)
  \/ RemoveFromListCall(1, 1, 1)
  \/ \E ok \in BOOLEAN : RemoveFromListGetDocs(1, ok)
  \/ \E i \in 1..MaxItems, ok \in BOOLEAN : RemoveFromListItem(1, i, ok)
  \/ ToggleItemCompletedCall(1, 1)
  \/ \E ok \in BOOLEAN : ToggleItemCompletedGetDoc(1, ok)
  \/ \E ok \in BOOLEAN : ToggleItemCompletedUpdateDoc(1, ok)
InitWrites == InitWithList(ScaledPage, 1, 1)
SpecWrites == InitWrites /\ [][WritesNext]_vars

\* The ListView of user A over two lists of theirs, the first holding one
\* item: open, pick, back, close, and the deletion of a list with its
\* confirmation, every read and delete free to fail.  No collection named
\* 'messages' exists, so no item shows a message to navigate to.
InitListView ==
  /\ InitHooks(ScaledPage)
  /\ db = [c \in {UM_MESSAGES_COLLECTION, UL_MESSAGES_COLLECTION,
                  LISTS_COLLECTION, LIST_ITEMS_COLLECTION} |->
             IF c = UM_MESSAGES_COLLECTION THEN [i \in 1..1 |-> Canonical(i)]
             ELSE IF c = LISTS_COLLECTION
             THEN [i \in 1..2 |->
                     ListData("A", [name |-> << "G" >>, visibility |-> "private",
                                    type |-> "checklist", emoji |-> None], i)]
             ELSE IF c = LIST_ITEMS_COLLECTION
             THEN [i \in 1..1 |-> ItemData(1, 1, i)]
             ELSE << >>]
  /\ idGen = [c \in {UM_MESSAGES_COLLECTION, UL_MESSAGES_COLLECTION,
                     LISTS_COLLECTION, LIST_ITEMS_COLLECTION} |->
                IF c = LISTS_COLLECTION THEN 2
                ELSE IF c = UL_MESSAGES_COLLECTION THEN 0 ELSE 1]
ListViewNext ==
  \/ SetUser("A")
  \/ ListsDeliver
  \/ ViewOpen
  \/ \E l \in 1..2 : ViewPick(l)
  \/ \E i \in 1..MaxPending, ok \in BOOLEAN : ViewFetchGetDocs(i, ok)
  \/ \E i \in 1..MaxPending, ok \in BOOLEAN : ViewFetchMessages(i, ok)
  \/ ViewBack
  \/ ViewClose
  \/ \E l \in 1..2 : ViewAskDelete(l)
  \/ ViewCancelDelete
  \/ ViewDeleteList
  \/ \E ok \in BOOLEAN : DeleteListGetDocs(1, ok)
  \/ \E i \in 1..MaxItems, ok \in BOOLEAN : DeleteListItem(1, i, ok)
  \/ \E ok \in BOOLEAN : DeleteListDoc(1, ok)
SpecListView == InitListView /\ [][ListViewNext]_vars

\* The ListView of user A over two public lists, list 1 owned by the other
\* party and holding one item, list 2 owned by A: A opens, picks, goes back
\* and closes while the other party makes list 1 private or public again
\* or deletes it from their own client, every request free to fail.
InitShared ==
  /\ InitHooks(ScaledPage)
  /\ db = [c \in {UM_MESSAGES_COLLECTION, UL_MESSAGES_COLLECTION,
                  LISTS_COLLECTION, LIST_ITEMS_COLLECTION} |->
             IF c = UM_MESSAGES_COLLECTION THEN [i \in 1..1 |-> Canonical(i)]
             ELSE IF c = LISTS_COLLECTION
             THEN [i \in 1..2 |->
                     ListData(IF i = 1 THEN RemoteUser ELSE "A",
                              [name |-> << "G" >>, visibility |-> "public",
                               type |-> "collection", emoji |-> None], i)]
             ELSE IF c = LIST_ITEMS_COLLECTION
             THEN [i \in 1..1 |-> ItemData(1, 1, i)]
             ELSE << >>]
  /\ idGen = [c \in {UM_MESSAGES_COLLECTION, UL_MESSAGES_COLLECTION,
                     LISTS_COLLECTION, LIST_ITEMS_COLLECTION} |->
                IF c = LISTS_COLLECTION THEN 2
                ELSE IF c = UL_MESSAGES_COLLECTION THEN 0 ELSE 1]
SharedNext ==
  \/ SetUser("A")
  \/ ListsDeliver
  \/ ViewOpen
  \/ \E l \in 1..2 : ViewPick(l)
  \/ \E i \in 1..MaxPending, ok \in BOOLEAN : ViewFetchGetDocs(i, ok)
  \/ \E i \in 1..MaxPending, ok \in BOOLEAN : ViewFetchMessages(i, ok)
  \/ ViewBack
  \/ ViewClose
  \/ \E u \in ListUpdates : UpdateListCall(2, 1, u)
  \/ \E ok \in BOOLEAN : UpdateListDoc(2, ok)
  \/ DeleteListCall(2, 1)
  \/ \E ok \in BOOLEAN : DeleteListGetDocs(2, ok)
  \/ \E i \in 1..MaxItems, ok \in BOOLEAN : DeleteListItem(2, i, ok)
  \/ \E ok \in BOOLEAN : DeleteListDoc(2, ok)
SpecShared == InitShared /\ [][SharedNext]_vars

\* The AuthProvider from its first render with nobody signed in: sign-ins
\* with a whitelisted and with a non-whitelisted account, sign-outs, every
\* request free to fail.
InitAuth == InitWith(ScaledPage, 0)
AuthNext ==
  \/ AuthDeliver
  \/ \E i \in 1..MaxAuthPending, ok \in BOOLEAN : AuthGetDoc(i, ok)
  \/ \E i \in 1..MaxAuthPending, ok \in BOOLEAN : AuthSetDoc(i, ok)
  \/ \E i \in 1..MaxAuthPending, ok \in BOOLEAN : AuthRejectSignOut(i, ok)
  \/ SignInWithGoogle
  \/ \E acc \in Accounts, ok \in BOOLEAN : SignInPopup(acc, ok)
  \/ \E ok \in BOOLEAN : SignInSignOut(ok)
  \/ SignOut
  \/ \E ok \in BOOLEAN : SignOutSettle(ok)
SpecAuth == InitAuth /\ [][AuthNext]_vars

\* useLongPress under any order of its three events.
InitPress == InitWith(ScaledPage, 0)
PressNext ==
  \/ PressStart
  \/ \E t \in press.timers : PressTimeout(t)
  \/ PressClear
SpecPress == InitPress /\ [][PressNext]_vars

\* removeFromList of user A on a list of theirs to which A adds messages 1
\* and 2 and the other party message 1: concurrent adds store a pair twice,
\* and an insert can land while a removal is under way; every read, insert
\* and delete may fail.
InitRemove == InitWithList(ScaledPage, 2, 0)
RemoveNext ==
  \/ SetUser("A")
  \/ \E m \in ListMessageIds : AddMessageToListCall(1, 1, m)
  \/ AddMessageToListCall(2, 1, 1)
  \/ \E s \in Sessions, ok \in BOOLEAN : AddMessageToListGetDocs(s, ok)
  \/ \E s \in Sessions, ok \in BOOLEAN : AddMessageToListAddDoc(s, ok)
  \/ \E m \in ListMessageIds : RemoveFromListCall(1, 1, m)
  \/ \E ok \in BOOLEAN : RemoveFromListGetDocs(1, ok)
  \/ \E i \in 1..MaxItems, ok \in BOOLEAN : RemoveFromListItem(1, i, ok)
SpecRemove == InitRemove /\ [][RemoveNext]_vars

\* The ListPicker of user A over a window of two messages and no list yet:
\* swipe, close, pick of a list, Create & Add, every store write and read of
\* the list operations free to fail.
InitPicker == InitWith(ScaledPage, 2)
PickerNext ==
  \/ SetUser("A")
  \/ Deliver
  \/ DeliverResolve(1, TRUE)
  \/ ListsDeliver
  \/ \E m \in 1..2 : PickerSwipe(m)
  \/ PickerClose
  \/ \E l \in 1..MaxLists : PickerSelect(l)
  \/ \E in \in ListInputs : PickerCreate(in)
  \/ \E ok \in BOOLEAN : CreateListAddDoc(1, ok)
  \/ \E ok \in BOOLEAN : AddMessageToListGetDocs(1, ok)
  \/ \E ok \in BOOLEAN : AddMessageToListAddDoc(1, ok)
SpecPicker == InitPicker /\ [][PickerNext]_vars

\* User A signs in and out over a store with four messages and a list with
\* one item; while nobody is signed in, every operation of the two hooks is
\* called; loadMore is called at any time, so that a call made before a
\* sign-out is still in flight after it.
InitSignedOut == InitWithList(ScaledPage, ScaledPage + 2, 1)
SignedOutNext ==
  \/ Render
  \/ \E u \in {NoUser, "A"} : SetUser(u)
  \/ Deliver
  \/ DeliverResolve(1, TRUE)
  \/ ListsDeliver
  \/ LoadMoreCall
  \/ LoadMoreGetDocs(1, TRUE)
  \/ LoadMoreReplies(1, TRUE)
  \/ (userId = NoUser /\ \E c \in Contents : SendMessageCall(1, c, Null))
  \/ (userId = NoUser /\ SendDrawingCall(1, TRUE, Null))
  \/ (userId = NoUser /\ ToggleLikeCall(1, 1))
  \/ (userId = NoUser /\ \E in \in ListInputs : CreateListCall(1, in))
  \/ (userId = NoUser /\ \E u \in ListUpdates : UpdateListCall(1, 1, u))
  \/ (userId = NoUser /\ DeleteListCall(1, 1))
  \/ (userId = NoUser /\ AddMessageToListCall(1, 1, 2))
  \/ (userId = NoUser /\ RemoveFromListCall(1, 1, 1))
  \/ (userId = NoUser /\ ToggleItemCompletedCall(1, 1))
SpecSignedOut == InitSignedOut /\ [][SignedOutNext]_vars


\* loadMore over a static store with the scaled page, every range query and
\* reply resolution free to fail; React renders after a state change and
\* the store settles every request.
LoadFailNext ==
  \/ Render
  \/ SetUser("A")
  \/ Deliver
  \/ DeliverResolve(1, TRUE)
  \/ LoadMoreCall
  \/ \E i \in 1..MaxPending, ok \in BOOLEAN : LoadMoreGetDocs(i, ok)
  \/ \E i \in 1..MaxPending, ok \in BOOLEAN : LoadMoreReplies(i, ok)
SpecLoadFail ==
  /\ InitFeed
  /\ [][LoadFailNext]_vars
  /\ WF_vars(Render)
  /\ WF_vars(\E i \in 1..MaxPending, ok \in BOOLEAN : LoadMoreGetDocs(i, ok))
  /\ WF_vars(\E i \in 1..MaxPending, ok \in BOOLEAN : LoadMoreReplies(i, ok))


\* loadMore called again and again over a static store that always answers,
\* each call after the initial delivery and after the previous call has
\* finished, with the source's page size; React renders after a state
\* change, the store answers, and the caller keeps calling.
NextLoadMore ==
  sub.last # None /\ snapPend = << >> /\ lmPend = << >> /\ LoadMoreCall
LoadAllNext ==
  \/ Render
  \/ SetUser("A")
  \/ Deliver
  \/ DeliverResolve(1, TRUE)
  \/ NextLoadMore
  \/ LoadMoreGetDocs(1, TRUE)
  \/ LoadMoreReplies(1, TRUE)
SpecLoadAll ==
  /\ InitPaging
  /\ [][LoadAllNext]_vars
  /\ WF_vars(Render)
  /\ WF_vars(SetUser("A"))
  /\ WF_vars(Deliver)
  /\ WF_vars(DeliverResolve(1, TRUE))
  /\ WF_vars(NextLoadMore)
  /\ WF_vars(LoadMoreGetDocs(1, TRUE))
  /\ WF_vars(LoadMoreReplies(1, TRUE))





(* ============================== claims ================================= *)

Ids(w) == {w[i].id : i \in 1..Len(w)}
NoDuplicateIds(w) == Cardinality(Ids(w)) = Len(w)
OldestFirst(w) == \A i \in 1..(Len(w) - 1) : w[i].timestamp < w[i + 1].timestamp

\* The ids of the k newest stored messages (all of them if fewer exist).
NewestIds(k) ==
  {m \in MsgIds :
     Cardinality({j \in MsgIds : db[UM_MESSAGES_COLLECTION][j].timestamp
                                   > db[UM_MESSAGES_COLLECTION][m].timestamp}) < k}

\* The window as the delivery of the newest page installs it.
DeliveredWindow == Reverse(FetchReplyMessages(QueryNewest(pageSize)))

\* C1 (SpecPaging, static store, page size 50): when the window is the
\* installed initial delivery and the one loadMore issued from its cursor
\* completes, the window has no id twice, holds exactly the newest 2N stored
\* messages (all of them if fewer exist) and is ordered oldest-first.
C1_TwoPagesNoDuplicates ==
  [][ ( /\ sub.last # None
        /\ snapPend = << >>
        /\ messages # << >>
        /\ messages = DeliveredWindow
        /\ Len(lmPend) = 1
        /\ lmPend[1].cursor = messages[1].id
        /\ lmPend' = << >>
        /\ error' = error )
      => ( /\ NoDuplicateIds(messages')
           /\ Ids(messages') = NewestIds(2 * pageSize)
           /\ OldestFirst(messages') ) ]_vars

\* C1 witness: one loadMore has completed on a store of more than two pages
\* and the window holds two full pages.
C1_Witness ==
  /\ act.name \in {"loadMoreGetDocs", "loadMoreReplies"}
  /\ lmPend = << >>
  /\ snapPend = << >>
  /\ Cardinality(MsgIds) > 2 * pageSize
  /\ Len(messages) = 2 * pageSize
  /\ Ids(messages) = NewestIds(2 * pageSize)

C3_SecondAddInsertsNothing ==
  [][ \A s \in Sessions :
        ( /\ calls[s].op = "addMessageToList"
          /\ calls[s].second
          /\ act'.s = s
          /\ act'.ok )
        => ( /\ act'.name = "addMessageToList.getDocs"
             /\ act'.out = "resolved"
             /\ calls'[s] = Idle
             /\ db' = db
             /\ Cardinality(ItemsOfPair(calls[s].listId, calls[s].messageId)) = 1 )
    ]_vars

\* C3 witness: a second call has just returned at its existence test and
\* the pair has one ListItem.
C3_Witness ==
  /\ act.name = "addMessageToList.getDocs"
  /\ act.out = "resolved"
  /\ act.arg[3]
  /\ Cardinality(ItemsOfPair(act.arg[1], act.arg[2])) = 1

\* C4 (SpecItems): in every reachable state, whatever the interleaving of
\* the sessions' addMessageToList calls, the store holds at most one
\* ListItem per (listId, messageId).
C4_OneItemPerPair ==
  \A i, j \in ItemIds :
    ( /\ db[LIST_ITEMS_COLLECTION][i].listId = db[LIST_ITEMS_COLLECTION][j].listId
      /\ db[LIST_ITEMS_COLLECTION][i].messageId
           = db[LIST_ITEMS_COLLECTION][j].messageId )
    => i = j

\* C5 (SpecLikes): when a toggleLike write follows a toggleLike write of the
\* same identity to the same message, with no other write to that message
\* from the read of the first call to the write of the second
\* (likeHist.pair), the stored likes are again the value the first call
\* found, and the patch of the second call leaves every window copy of that
\* message with that value.
C5_ToggleTwiceRestores ==
  [][ /\ (act'.name = "toggleLike.updateDoc" /\ act'.ok /\ likeHist'.pair)
         => db'[UM_MESSAGES_COLLECTION][likeHist'.messageId].likes = likeHist.before
      /\ (act'.name = "toggleLike.patch" /\ calls[1].op = "toggleLike"
            /\ calls[1].restores # None)
         => \A i \in 1..Len(messages') :
              messages'[i].id = calls[1].messageId
                => messages'[i].likes = calls[1].restores[1] ]_vars

\* C5 witness: the second toggle of A has patched the window, the message
\* is in the window, and the restored value is a non-empty likes set.
C5_Witness ==
  /\ act.name = "toggleLike.patch"
  /\ likeHist.pair
  /\ likeHist.uid = "A"
  /\ db[UM_MESSAGES_COLLECTION][1].likes = {"B"}
  /\ \E i \in 1..Len(messages) : messages[i].id = 1 /\ messages[i].likes = {"B"}

\* C6 (SpecItems): deleteList deletes the List document only when none of
\* the ListItem deletes it started is outstanding, and when deleteList(L)
\* has completed successfully the store holds no ListItem with listId L.
C6_DeleteListLeavesNoItems ==
  /\ \A s \in Sessions :
       (calls[s].op = "deleteList" /\ calls[s].pc = "deleteDoc")
       => calls[s].pending = {}
  /\ (act.name = "deleteList.deleteDoc" /\ act.out = "resolved")
     => ItemsOfList(act.arg[1]) = {}

\* C7 (SpecItems): when getListItems(L) returns, every item it returns for
\* a message m that sendMessage created is the only item for m, has
\* completed = false, and carries m itself as its resolved message.
C7_ListItemResolvesMessage ==
  (act.name = "getListItems.getMessages" /\ act.out = "resolved")
  => \A i \in 1..Len(fetched.items) :
       fetched.items[i].messageId \in MsgIds
       => ( /\ fetched.items[i].message
                 = GetDoc(UM_MESSAGES_COLLECTION, fetched.items[i].messageId)
            /\ fetched.items[i].message # None
            /\ ~fetched.items[i].completed
            /\ \A j \in 1..Len(fetched.items) :
                 fetched.items[j].messageId = fetched.items[i].messageId
                 => j = i )

ExactlyOneOfContentImage(d) == (d.content # None) # (d.imageUrl # None)

\* C8 (SpecSend): every stored message has exactly one of content and
\* imageUrl non-null, and every insert of sendMessage / sendDrawing creates a
\* text message (content set, imageUrl null) resp. a drawing (imageUrl set,
\* content null) with an empty likes set.
C8_InsertedMessageShape ==
  /\ [](\A m \in MsgIds : ExactlyOneOfContentImage(db[UM_MESSAGES_COLLECTION][m]))
  /\ [][ idGen'[UM_MESSAGES_COLLECTION] # idGen[UM_MESSAGES_COLLECTION]
         => LET d == db'[UM_MESSAGES_COLLECTION][idGen'[UM_MESSAGES_COLLECTION]]
            IN  /\ act'.name \in {"sendMessage", "sendDrawing"}
                /\ ExactlyOneOfContentImage(d)
                /\ d.likes = {}
                /\ act'.name = "sendMessage" => (d.content # None /\ d.imageUrl = None)
                /\ act'.name = "sendDrawing" => (d.imageUrl # None /\ d.content = None)
      ]_vars

\* C8 witness: the store holds a drawing and a text message of B, both
\* inserted by the send operations.
C8_Witness ==
  \E i, j \in MsgIds :
     /\ db[UM_MESSAGES_COLLECTION][i].imageUrl # None
     /\ db[UM_MESSAGES_COLLECTION][i].content = None
     /\ db[UM_MESSAGES_COLLECTION][j].senderId = "B"
     /\ db[UM_MESSAGES_COLLECTION][j].content # None

\* C9 (SpecVisibility): every List the hook exposes while the identity is U
\* is public or owned by U, also in the state directly after the identity
\* changed.
C9_ExposedListsVisibleToUser ==
  userId # NoUser
  => \A i \in 1..Len(lists) :
       lists[i].visibility = "public" \/ lists[i].ownerId = userId

\* What a caller's promise can do other than reject.
Settled(out) == out \in {"resolved", "pending", "-"}

\* C10 (SpecLikes), as claimed: whenever the store rejects the write of a
\* sendMessage, sendDrawing or toggleLike call, the call rejects with an
\* operation-specific error and the window is unchanged.
C10_WriteFailureSurfaces ==
  [][ (act'.name \in {"sendMessage", "sendDrawing", "toggleLike.updateDoc"}
         /\ ~act'.ok)
      => (~Settled(act'.out) /\ messages' = messages) ]_vars

\* C11 (SpecFeed), as claimed: when the subscription reports an error, a
\* loadMore query fails, or the reply resolution of a delivery or of a
\* loadMore fails, error is set and messages, the cursor and hasMore are as
\* they were before the failing delivery or loadMore began (checked for an
\* operation that ran alone, step after step).
C11_FailureKeepsLastGoodState ==
  [][ /\ (act'.name = "snapshotError" \/ (act'.name = "loadMoreGetDocs" /\ ~act'.ok))
         => (error' # NoError /\ UNCHANGED << messages, lastDocRef, hasMore >>)
      /\ ( /\ act'.name = "deliverResolve" /\ ~act'.ok
           /\ act.name = "deliver" /\ act.arg # << >>
           /\ Len(snapPend) = 1 /\ lmPend = << >> )
         => ( /\ error' # NoError
              /\ messages' = messages
              /\ lastDocRef' = act.arg[1]
              /\ hasMore' = act.arg[2] )
      /\ ( /\ act'.name = "loadMoreReplies" /\ ~act'.ok
           /\ act.name = "loadMoreGetDocs" /\ act.arg # << >> /\ act.arg[3]
           /\ Len(lmPend) = 1 /\ snapPend = << >> )
         => ( /\ error' # NoError
              /\ messages' = messages
              /\ lastDocRef' = act.arg[1]
              /\ hasMore' = act.arg[2] ) ]_vars

\* Everything but the history of steps.
programVars == << fixedVars, listsLoading, listsSub, likeHist, storeVars,
                 feedVars, calls >>

\* C12 (SpecSend): a sendMessage call whose content is empty after trimming
\* returns without error, starts no insert and changes no state; every
\* insert of sendMessage stores the trimmed, non-empty text of its argument.
C12_BlankSendIsSilentNoop ==
  [][ \A s \in Sessions :
        /\ ( /\ calls[s] = Idle
             /\ act'.name = "sendMessage" /\ act'.s = s
             /\ Trim(act'.arg[1]) = << >> )
           => (act'.out = "resolved" /\ UNCHANGED programVars)
        /\ ( /\ calls[s].op = "sendMessage"
             /\ act'.s = s
             /\ idGen'[UM_MESSAGES_COLLECTION] # idGen[UM_MESSAGES_COLLECTION] )
           => LET d == db'[UM_MESSAGES_COLLECTION][idGen'[UM_MESSAGES_COLLECTION]]
              IN  /\ d.content = Some(Trim(calls[s].content))
                  /\ d.content # Some(<< >>)
                  /\ Head(d.content[1]) # " "
                  /\ d.content[1][Len(d.content[1])] # " " ]_vars

\* C12 witness: the signed-in session 1 called sendMessage(" ") and it
\* returned at once, in a run in which sendMessage inserted the only stored
\* message.
C12_Witness ==
  /\ act.name = "sendMessage"
  /\ act.s = 1
  /\ act.out = "resolved"
  /\ act.arg = << << " " >> >>
  /\ userId # NoUser
  /\ calls[1] = Idle
  /\ nSends = 1
  /\ MsgIds = {1}
  /\ db[UM_MESSAGES_COLLECTION][1].content = Some(<< "h", "i" >>)

\* C13 (SpecVisibility), as claimed: a createList call whose name is empty
\* after trimming returns without error, starts no insert and changes no
\* state, and every List inserted has a name that is non-empty after
\* trimming.
C13_BlankNameCreatesNoList ==
  [][ /\ \A s \in Sessions :
           ( /\ calls[s] = Idle
             /\ act'.name = "createList" /\ act'.s = s
             /\ Trim(act'.arg[1]) = << >> )
           => (act'.out = "resolved" /\ UNCHANGED programVars)
      /\ idGen'[LISTS_COLLECTION] # idGen[LISTS_COLLECTION]
         => Trim(db'[LISTS_COLLECTION][idGen'[LISTS_COLLECTION]].name) # << >>
    ]_vars

\* C14 (SpecItems): the items getListItems(L) reads are exactly the
\* ListItems stored with listId L when its query runs, each once; the
\* result it returns has one element per item read, in the same order, with
\* message = null exactly for the items whose message document the point
\* read does not find; and the call fails only when the store fails.
C14_OneResultPerListItem ==
  [][ (calls[1].op = "getListItems" /\ act'.s = 1 /\ act'.ok)
      => /\ Settled(act'.out)
         /\ calls[1].pc = "getDocs"
            => LET got == IF calls'[1] = Idle THEN fetched'.items
                          ELSE calls'[1].items
               IN  /\ Ids(got) = ItemsOfList(calls[1].listId)
                   /\ Len(got) = Cardinality(ItemsOfList(calls[1].listId))
         /\ calls[1].pc = "getMessages"
            => /\ act'.out = "resolved"
               /\ Len(fetched'.items) = Len(calls[1].items)
               /\ \A i \in 1..Len(calls[1].items) :
                    /\ fetched'.items[i].id = calls[1].items[i].id
                    /\ fetched'.items[i].messageId = calls[1].items[i].messageId
                    /\ (fetched'.items[i].message = None)
                         <=> ~Exists(UL_MESSAGES_COLLECTION,
                                     calls[1].items[i].messageId) ]_vars

\* C14 witness: getListItems has returned the two items of its list, one of
\* them for a message id that names no message at all, with message null.
C14_Witness ==
  /\ act.name = "getListItems.getMessages"
  /\ act.out = "resolved"
  /\ Len(fetched.items) = 2
  /\ Ids(fetched.items) = ItemsOfList(fetched.listId)
  /\ \E i \in 1..2 : /\ fetched.items[i].messageId \notin MsgIds
                      /\ fetched.items[i].message = None

\* What fetchReplyMessages owes a message over the store as it is.
ReplyResolved(m) ==
  /\ m.replyTo = Null => m.replyToMessage = None
  /\ (m.replyTo # Null /\ m.replyTo \in MsgIds)
       => m.replyToMessage = Some(MsgDoc(m.replyTo))
  /\ (m.replyTo # Null /\ m.replyTo \notin MsgIds) => m.replyToMessage = None

\* C15 (SpecFeed, static store): every message of the window, installed by
\* a delivery or prepended by loadMore, has replyToMessage null when replyTo
\* is null, the named Message when replyTo names a stored one, and null when
\* it names none; and a resolution whose reads succeed raises no error.
C15_ReplyResolution ==
  /\ [](\A i \in 1..Len(messages) : ReplyResolved(messages[i]))
  /\ [][ (act'.name \in {"deliverResolve", "loadMoreReplies"} /\ act'.ok)
         => error' = error ]_vars

\* C15 witness: after a loadMore whose page needed reply reads, the window
\* holds a reply with its message resolved, a reply to a message that does
\* not exist resolved to null, and a message that is no reply.
C15_Witness ==
  /\ act.name = "loadMoreReplies"
  /\ act.ok
  /\ error = NoError
  /\ \E i, j, k \in 1..Len(messages) :
       /\ messages[i].replyTo \in MsgIds
       /\ messages[i].replyToMessage = Some(MsgDoc(messages[i].replyTo))
       /\ messages[j].replyTo = DanglingId
       /\ messages[j].replyToMessage = None
       /\ messages[k].replyTo = Null
       /\ messages[k].replyToMessage = None

\* The batch msgs resolved as C16 claims when the read of f fails.
ResolvedExcept(msgs, f) ==
  [i \in 1..Len(msgs) |->
     msgs[i] @@ [replyToMessage |->
        IF msgs[i].replyTo # Null /\ msgs[i].replyTo # f
        THEN GetDoc(UM_MESSAGES_COLLECTION, msgs[i].replyTo)
        ELSE None]]

\* C16 (SpecFeed), as claimed: when a point read of a reply resolution
\* fails, the batch is still installed (delivery) or prepended (loadMore),
\* with replyToMessage null only for the messages that reference the id
\* whose read failed.
C16_ReadFailureDegradesOneReference ==
  [][ /\ (act'.name = "deliverResolve" /\ ~act'.ok /\ Len(snapPend) = 1)
         => \E f \in ReplyIds(snapPend[1]) :
              messages' = Reverse(ResolvedExcept(snapPend[1], f))
      /\ (act'.name = "loadMoreReplies" /\ ~act'.ok /\ Len(lmPend) = 1)
         => \E f \in ReplyIds(lmPend[1].batch) :
              messages' = Reverse(ResolvedExcept(lmPend[1].batch, f)) \o messages
    ]_vars

\* C17 (SpecDelete): when an item delete of deleteList(L) fails, the call
\* reports 'Failed to delete list' and does not delete the List; and the
\* call deletes the List document only when every item delete it issued has
\* resolved and none has failed.
C17_FailedItemDeleteKeepsList ==
  [][ \A s \in Sessions :
        (calls[s].op = "deleteList" /\ act'.s = s)
        => /\ (act'.name = "deleteList.deleteItem" /\ ~act'.ok /\ ~calls[s].failed)
              => ( /\ act'.out = "Failed to delete list"
                   /\ db'[LISTS_COLLECTION] = db[LISTS_COLLECTION] )
           /\ calls[s].failed
              => ( /\ db'[LISTS_COLLECTION] = db[LISTS_COLLECTION]
                   /\ act'.out # "resolved" )
           /\ db'[LISTS_COLLECTION] # db[LISTS_COLLECTION]
              => (calls[s].pending = {} /\ ~calls[s].failed) ]_vars

\* C17 witness: deleteList(1) has thrown because one of its two item
\* deletes failed while the other succeeded, and List 1 is still stored.
C17_Witness ==
  /\ act.name = "deleteList.deleteItem"
  /\ calls[1] = Idle
  /\ 1 \in ListIds
  /\ Cardinality(ItemsOfList(1)) = 1
  /\ idGen[LIST_ITEMS_COLLECTION] = 2
  /\ (~act.ok \/ act.out = "-")

\* C18 (SpecSend): every stored Message with an imageUrl names an object
\* whose upload completed; a sendDrawing whose upload or URL read fails
\* throws 'Failed to send drawing', inserts nothing and is over; and the
\* insert of a sendDrawing call happens only with its object uploaded.
C18_DrawingInsertAfterUpload ==
  /\ [](\A m \in MsgIds :
         db[UM_MESSAGES_COLLECTION][m].imageUrl # None
         => db[UM_MESSAGES_COLLECTION][m].imageUrl[1] \in uploads)
  /\ [][ \A s \in Sessions :
           (calls[s].op = "sendDrawing" /\ act'.s = s)
           => /\ (act'.name \in {"sendDrawing.upload", "sendDrawing.url"}
                     /\ ~act'.ok)
                 => ( /\ act'.out = "Failed to send drawing"
                      /\ db' = db
                      /\ calls'[s] = Idle )
              /\ db' # db
                 => ( /\ calls[s].pc = "addDoc"
                      /\ calls[s].data.imageUrl[1] \in uploads ) ]_vars

\* C18 witness: one drawing was sent and is stored with its uploaded
\* object, and a second sendDrawing has just failed at the URL read, its
\* object uploaded but no Message inserted for it.
C18_Witness ==
  /\ act.name = "sendDrawing.url"
  /\ ~act.ok
  /\ Cardinality(uploads) = 2
  /\ Cardinality({m \in MsgIds : db[UM_MESSAGES_COLLECTION][m].imageUrl # None}) = 1

\* C19 (SpecTeardown), as claimed: while the hook is deactivated its
\* subscription is closed, and a delivery of a subscription that has been
\* torn down changes neither messages, the cursor, hasMore, loading nor
\* error.  While the current subscription has delivered nothing (sub.last =
\* None), every delivery still being resolved belongs to a subscription
\* torn down before.
C19_NoDeliveryAfterTeardown ==
  /\ [](userId = NoUser => ~sub.open)
  /\ [][ (sub.last = None /\ act'.name = "deliverResolve")
         => UNCHANGED << messages, lastDocRef, hasMore, loading, error >> ]_vars

\* The ids of a window or batch, in order.
IdSeq(w) == [i \in 1..Len(w) |-> w[i].id]

\* C20 (SpecSend: one subscription, reads never fail, no loadMore), as
\* claimed: once every delivery that arrived has been processed, the
\* window, the cursor and hasMore are those of the delivery that arrived
\* last.
C20_DeliveriesAppliedInOrder ==
  (sub.open /\ sub.last # None /\ snapPend = << >>)
  => LET last == sub.last[1]
     IN  /\ IdSeq(messages) = IdSeq(Reverse(last))
         /\ lastDocRef = (IF Len(last) > 0 THEN last[Len(last)].id ELSE Null)
         /\ hasMore = (Len(last) = pageSize)

\* C21 (SpecFeed), as claimed: never are two loadMore calls suspended, and a
\* loadMore call made while an earlier one has not finished returns at its
\* guard, issues no query and changes no state, whether or not a render has
\* re-created the callback since the first call.
C21_SingleLoadMoreInFlight ==
  /\ [](Len(lmPend) <= 1)
  /\ [][ (lmPend # << >> /\ act'.name = "loadMore")
         => ( /\ act'.out = "resolved"
              /\ UNCHANGED << messages, lastDocRef, hasMore, loadingMore,
                              error, lmPend, db >> ) ]_vars

\* Nothing is in flight: no handler or call is suspended and the listener has
\* delivered the current result of its query.
FeedSettled ==
  /\ sub.open
  /\ sub.last = Some(QueryNewest(pageSize))
  /\ snapPend = << >>
  /\ lmPend = << >>
  /\ \A s \in Sessions : calls[s] = Idle

\* Every stored message whose timestamp lies between those of two entries of
\* the window is in the window.
NoGap(w) ==
  \A m \in MsgIds :
    (\E i, j \in 1..Len(w) :
        /\ w[i].timestamp <= db[UM_MESSAGES_COLLECTION][m].timestamp
        /\ db[UM_MESSAGES_COLLECTION][m].timestamp <= w[j].timestamp)
    => m \in Ids(w)

\* C22 (SpecLive), as claimed: once a message has arrived, a loadMore has
\* prepended a page that is still in the window, and everything in flight
\* has settled, the window is ordered oldest-first (equal neighbours, i.e.
\* duplicates, allowed), has no gap, and the cursor designates its oldest
\* entry.
C22_OnlyDuplicatesAfterInterleaving ==
  ( /\ FeedSettled
    /\ Len(messages) > pageSize
    /\ Cardinality(MsgIds) > ScaledPage + 1 )
  => /\ \A i \in 1..(Len(messages) - 1) :
          messages[i].timestamp <= messages[i + 1].timestamp
     /\ NoGap(messages)
     /\ lastDocRef = messages[1].id

\* The oldest item of a batch given newest-first (none if it is empty).
OldestOf(batch) == IF Len(batch) > 0 THEN batch[Len(batch)].id ELSE Null

OlderIds(cursor, n) ==
  LET ts(m) == db[UM_MESSAGES_COLLECTION][m].timestamp
  IN  {m \in MsgIds :
         /\ ts(m) < ts(cursor)
         /\ Cardinality({j \in MsgIds : ts(m) < ts(j) /\ ts(j) < ts(cursor)}) < n}

\* w2 is w1 with k entries put in front, which are oldest-first and have
\* exactly the ids in `ids`.
PrependedBy(w1, w2, ids) ==
  LET k == Len(w2) - Len(w1)
  IN  /\ k = Cardinality(ids)
      /\ SubSeq(w2, k + 1, Len(w2)) = w1
      /\ Ids(SubSeq(w2, 1, k)) = ids
      /\ OldestFirst(SubSeq(w2, 1, k))

\* C24 (SpecPagingLive, page size 50): when the range query of a loadMore
\* that passed its guard returns, its result is the 50 newest messages
\* strictly older than the cursor the call started from; hasMore becomes
\* (result size = 50); on an empty result cursor and window are unchanged;
\* on a non-empty result the cursor becomes the oldest returned id and, when
\* the call completes, the page stands oldest-first in front of the window,
\* which is otherwise unchanged.
C24_LoadMorePrependsOlderPage ==
  /\ [][ (act'.name = "loadMoreGetDocs" /\ act'.ok)
         => \E i \in 1..Len(lmPend) :
              LET page == OlderIds(lmPend[i].cursor, MESSAGES_PER_PAGE)
                  oldest == CHOOSE m \in page : \A j \in page : m <= j
              IN  /\ lmPend[i].pc = "getDocs"
                  /\ hasMore' = (Cardinality(page) = MESSAGES_PER_PAGE)
                  /\ page = {} => /\ UNCHANGED << lastDocRef, messages >>
                                  /\ lmPend' = RemoveAt(lmPend, i)
                  /\ page # {}
                     => /\ lastDocRef' = oldest
                        /\ \/ /\ lmPend' = RemoveAt(lmPend, i)
                              /\ PrependedBy(messages, messages', page)
                           \/ /\ Len(lmPend') = Len(lmPend)
                              /\ lmPend'[i].pc = "replies"
                              /\ Ids(lmPend'[i].batch) = page
                              /\ UNCHANGED messages ]_vars
  /\ [][ (act'.name = "loadMoreReplies" /\ act'.ok)
         => \E i \in 1..Len(lmPend) :
              /\ lmPend[i].pc = "replies"
              /\ lmPend' = RemoveAt(lmPend, i)
              /\ PrependedBy(messages, messages', Ids(lmPend[i].batch))
              /\ UNCHANGED << lastDocRef, hasMore >> ]_vars

\* C24 witness: a loadMore has just completed with a full page of 50 in front
\* of a window of 50 that contains a message sent meanwhile, and the cursor
\* is the oldest id of the page.
C24_Witness ==
  /\ act.name \in {"loadMoreGetDocs", "loadMoreReplies"}
  /\ act.ok
  /\ lmPend = << >>
  /\ nSends > 0
  /\ Len(messages) = 2 * MESSAGES_PER_PAGE
  /\ hasMore
  /\ lastDocRef = messages[1].id
  /\ OldestFirst(messages)

\* C25 (SpecToggles): a toggle write stores the value computed from what its
\* call read.  toggleLike: when the other identity's write landed between
\* this call's read and its write, both having read the same likes, the
\* stored likes are those likes with only this caller toggled (the other
\* toggle is lost); when the pairs do not overlap, both identities are
\* toggled.  toggleItemCompleted: the stored value is the negation of the
\* value read, which after an overlapping write of the other session undoes
\* nothing (the item stays as that write left it), and after a
\* non-overlapping toggle of the other session restores the value before it.
C25_LastWriteWins ==
  /\ [][ (act'.name = "toggleLike.updateDoc" /\ act'.ok)
         => LET c == calls[act'.s]
                likes == db'[UM_MESSAGES_COLLECTION][c.messageId].likes
                sameMessageOtherUid ==
                  /\ likeHist.messageId = c.messageId
                  /\ likeHist.uid \in Users \ {c.uid}
                  /\ likeHist.clean
            IN  /\ likes = c.newLikes
                /\ ( /\ ~c.clean
                     /\ sameMessageOtherUid
                     /\ likeHist.before = ToggledLikes(c.newLikes, c.uid) )
                   => /\ likes = ToggledLikes(likeHist.before, c.uid)
                      /\ (likeHist.uid \in likes) = (likeHist.uid \in likeHist.before)
                /\ (c.clean /\ sameMessageOtherUid)
                   => likes = ToggledLikes(ToggledLikes(likeHist.before,
                                                        likeHist.uid), c.uid) ]_vars
  /\ [][ (act'.name = "toggleItemCompleted.updateDoc" /\ act'.ok)
         => LET c == calls[act'.s]
                stored == db[LIST_ITEMS_COLLECTION][c.itemId].completed
                completed == db'[LIST_ITEMS_COLLECTION][c.itemId].completed
            IN  /\ completed = ~c.currentCompleted
                /\ (~c.clean /\ stored # c.currentCompleted) => completed = stored
                /\ c.clean => completed = ~stored
                /\ (c.clean /\ c.restores # None /\ c.after # act'.s)
                   => completed = c.restores[1] ]_vars

\* C25 witness: B's like write has just landed over A's, both computed from
\* the same empty likes, and only B is stored.
C25_Witness ==
  /\ act.name = "toggleLike.updateDoc"
  /\ act.ok
  /\ act.s = 2
  /\ ~likeHist.clean
  /\ likeHist.uid = "B"
  /\ likeHist.before = {"A"}
  /\ db[UM_MESSAGES_COLLECTION][1].likes = {"B"}

\* Session 1's toggleLike is at its setMessages.
AtPatch(c) == c.op = "toggleLike" /\ c.pc = "patch"

\* C26 (SpecLikesPage): no step of toggleLike before its setMessages changes
\* the window; a failed read or write ends the call (no setMessages follows);
\* the call reaches its setMessages only by a successful store write of its
\* newLikes; and setMessages keeps the window's length and order and changes
\* only the likes of the entries with the target id, to newLikes.
C26_LikePatchAfterWrite ==
  [][ /\ act'.name \in {"toggleLike", "toggleLike.getDoc", "toggleLike.updateDoc"}
         => /\ UNCHANGED messages
            /\ ~act'.ok => calls'[act'.s] = Idle
      /\ (AtPatch(calls'[1]) /\ ~AtPatch(calls[1]))
         => /\ act'.name = "toggleLike.updateDoc" /\ act'.ok /\ act'.s = 1
            /\ db'[UM_MESSAGES_COLLECTION][calls'[1].messageId].likes
                 = calls'[1].newLikes
      /\ act'.name = "toggleLike.patch"
         => /\ AtPatch(calls[1])
            /\ Len(messages') = Len(messages)
            /\ \A i \in 1..Len(messages) :
                 messages'[i] =
                   IF messages[i].id = calls[1].messageId
                   THEN [messages[i] EXCEPT !.likes = calls[1].newLikes]
                   ELSE messages[i] ]_vars

\* C26 witness: toggleLike(1) of A has just patched a window of two entries:
\* message 1 shows A's like, message 2 is as delivered.
C26_Witness ==
  /\ act.name = "toggleLike.patch"
  /\ Len(messages) = 2
  /\ messages[1].id = 1
  /\ messages[1].likes = {"A"}
  /\ messages[2].id = 2
  /\ messages[2].likes = {}
  /\ "A" \in db[UM_MESSAGES_COLLECTION][1].likes

\* The fields of a Message fixed at its creation.
CreationFields == {"senderId", "content", "imageUrl", "timestamp", "replyTo"}

\* C27 (SpecWrites): no step removes a document from either messages
\* collection or changes senderId, content, imageUrl, timestamp or replyTo of
\* a stored Message.
C27_MessagesOnlyLikesMutable ==
  [][ \A c \in {UM_MESSAGES_COLLECTION, UL_MESSAGES_COLLECTION} :
        \A m \in DOMAIN db[c] :
          /\ m \in DOMAIN db'[c]
          /\ \A f \in CreationFields : db'[c][m][f] = db[c][m][f] ]_vars

\* C27 witness: deleteList has just deleted list 1 after its items; message
\* 1, liked meanwhile and replied to by a newer message, still has its
\* creation values.
C27_Witness ==
  /\ act.name = "deleteList.deleteDoc"
  /\ act.ok
  /\ ListIds # {}
  /\ 1 \notin ListIds
  /\ ItemIds = {}
  /\ Cardinality(MsgIds) > 1
  /\ db[UM_MESSAGES_COLLECTION][1].likes = {"A"}
  /\ \A f \in CreationFields : db[UM_MESSAGES_COLLECTION][1][f] = Canonical(1)[f]

\* What the last step did to the ListView: an explicit pick of list l that
\* started the fetch of its items, a back or close, and the completion of a
\* deleteList of list l called by handleDeleteList.
PickedWithFetch(l) ==
  /\ act'.name = "view.pick"
  /\ act'.arg = << l >>
  /\ Len(view'.fetches) = Len(view.fetches) + 1
  /\ view'.fetches[Len(view'.fetches)].listId = l
  /\ view'.fetches[Len(view'.fetches)].pc = "getDocs"
BackOrClose == act'.name \in {"view.back", "view.close"}
ListDeleted(l) ==
  /\ act'.name = "deleteList.deleteDoc"
  /\ act'.out = "resolved"
  /\ act'.arg = << l >>
  /\ view.deleting = l

\* C28: in the list view the selection goes from Unselected to Selected only
\* by an explicit pick of a list, which starts a fetch of its items, and
\* from Selected to Unselected only by an explicit back or close or by the
\* deletion of the selected list; no other event changes the selection, and
\* after a close or a list deletion selectedList and confirmDelete are null.
C28_SelectionTransitions ==
  [][ /\ (view.selectedList = Null /\ view'.selectedList # Null)
           => PickedWithFetch(view'.selectedList)
      /\ (view.selectedList # Null /\ view'.selectedList = Null)
           => (BackOrClose \/ ListDeleted(view.selectedList))
      /\ (view.selectedList # Null /\ view'.selectedList # Null)
           => view'.selectedList = view.selectedList
      /\ (act'.name = "view.close" \/ \E l \in 1..2 : ListDeleted(l))
           => (view'.selectedList = Null /\ view'.confirmDelete = Null) ]_vars

\* The parts of C28 that the code keeps: every change of the selection other
\* than the one a completed deletion makes.
C28_Rest ==
  [][ /\ (view.selectedList = Null /\ view'.selectedList # Null)
           => PickedWithFetch(view'.selectedList)
      /\ (view.selectedList # Null /\ view'.selectedList = Null)
           => (BackOrClose \/ \E l \in 1..2 : ListDeleted(l))
      /\ (view.selectedList # Null /\ view'.selectedList # Null)
           => view'.selectedList = view.selectedList
      /\ (act'.name = "view.close" \/ \E l \in 1..2 : ListDeleted(l))
           => (view'.selectedList = Null /\ view'.confirmDelete = Null) ]_vars

\* The last step belongs to a removeFromList call, and it completed the call
\* successfully on a signed-in session.
RemoveStep ==
  act'.name \in {"removeFromList", "removeFromList.getDocs",
                 "removeFromList.deleteItem"}
RemoveCompleted ==
  /\ act'.name \in {"removeFromList.getDocs", "removeFromList.deleteItem"}
  /\ act'.out = "resolved"

\* The ListItems a step may not touch: all of them, or those of the pairs
\* other than the removal's one once its deletes are under way.
KeptItems ==
  IF act'.name = "removeFromList.deleteItem"
  THEN ItemIds \ ItemsOfPair(act'.arg[1], act'.arg[2])
  ELSE ItemIds

\* C29: when removeFromList(L, m) completes successfully no ListItem of the
\* pair (L, m) that the store held when the call queried it remains,
\* however many there were; and no step of the call changes a List, a
\* ListItem of another pair, or a Message.
C29_RemoveDeletesAllMatches ==
  [][ /\ RemoveCompleted
        => \A i \in ItemIds' :
             (db'[LIST_ITEMS_COLLECTION][i].listId = act'.arg[1]
              /\ db'[LIST_ITEMS_COLLECTION][i].messageId = act'.arg[2])
               => i > act'.arg[4]
      /\ RemoveStep
        => /\ db'[LISTS_COLLECTION] = db[LISTS_COLLECTION]
           /\ db'[UM_MESSAGES_COLLECTION] = db[UM_MESSAGES_COLLECTION]
           /\ db'[UL_MESSAGES_COLLECTION] = db[UL_MESSAGES_COLLECTION]
           /\ \A i \in KeptItems :
                /\ i \in ItemIds'
                /\ db'[LIST_ITEMS_COLLECTION][i] = db[LIST_ITEMS_COLLECTION][i]
    ]_vars

\* A removal that found two ListItems of its pair has completed: none of the
\* pair is left, while the list, an item of another pair and the messages
\* are still there.
C29_Witness ==
  /\ act.name = "removeFromList.deleteItem"
  /\ act.out = "resolved"
  /\ Cardinality(act.arg[3]) >= 2
  /\ ItemsOfPair(act.arg[1], act.arg[2]) = {}
  /\ act.arg[1] \in ListIds
  /\ \E i \in ItemIds : db[LIST_ITEMS_COLLECTION][i].messageId # act.arg[2]
  /\ db[UM_MESSAGES_COLLECTION] # << >>

\* The last step is a write of toggleItemCompleted that the store applied.
CompletedWritten == act'.name = "toggleItemCompleted.updateDoc" /\ act'.ok

\* C30: toggleItemCompleted on an existing item reads its completed value
\* (false for a document without the field) and writes the negation of the
\* value it read, changing no other field and no other document; the second
\* of two successive calls with no write in between stores the value the
\* item had before the first; on an item that does not exist, and in every
\* step that is not its write, the call writes nothing.
C30_ToggleWritesNegation ==
  /\ [](CurrentCompleted([listId |-> 1, messageId |-> 1, addedAt |-> 1]) = FALSE)
  /\ [][ (act'.name = "toggleItemCompleted.getDoc" /\ act'.out = "pending")
         => calls'[act'.s].currentCompleted
              = db[LIST_ITEMS_COLLECTION][calls[act'.s].itemId].completed ]_vars
  /\ [][ CompletedWritten
         => LET c == calls[act'.s]
                old == db[LIST_ITEMS_COLLECTION][c.itemId]
                new == db'[LIST_ITEMS_COLLECTION][c.itemId]
            IN  /\ new.completed = ~c.currentCompleted
                /\ new = [old EXCEPT !.completed = ~c.currentCompleted]
                /\ db' = [db EXCEPT ![LIST_ITEMS_COLLECTION][c.itemId] = new]
                /\ (c.clean /\ c.restores # None)
                   => new.completed = c.restores[1] ]_vars
  /\ [][ ( /\ act'.name \in {"toggleItemCompleted", "toggleItemCompleted.getDoc",
                             "toggleItemCompleted.updateDoc"}
           /\ ~CompletedWritten )
         => db' = db ]_vars
  /\ [][ (act'.name = "toggleItemCompleted.getDoc" /\ act'.out = "resolved")
         => ~Exists(LIST_ITEMS_COLLECTION, calls[act'.s].itemId) ]_vars

\* C30 witness: user A has toggled item 1 twice in a row with nothing else
\* writing to it, and the item is not completed again, as before the first.
C30_Witness ==
  /\ act.name = "toggleItemCompleted.updateDoc"
  /\ act.ok
  /\ act.s = 1
  /\ act.arg[1] = 1
  /\ act.arg[2] = TRUE
  /\ act.arg[4]
  /\ act.arg[5] = Some(FALSE)
  /\ act.arg[6] = 1
  /\ db[LIST_ITEMS_COLLECTION][1] = ItemData(1, 1, 1)

\* The createList awaited by the picker's handleCreateList settles in this
\* step, with an id or with an error.
CreateReturned(ok) ==
  /\ act'.name = "createList.addDoc"
  /\ act'.s = 1
  /\ act'.ok = ok
  /\ picker.flow = "create"

\* addMessageToList is invoked in this step for list l and message m.
AddInvoked(l, m) ==
  /\ calls'[1].op = "addMessageToList"
  /\ calls'[1].pc = "getDocs"
  /\ calls'[1].listId = l
  /\ calls'[1].messageId = m

\* The add chained to a creation has completed successfully in this step.
ChainedAddCompleted ==
  /\ act'.name \in {"addMessageToList.getDocs", "addMessageToList.addDoc"}
  /\ act'.s = 1
  /\ act'.out = "resolved"
  /\ picker.flow = "chained"

WholePages == MsgIds # {} /\ Cardinality(MsgIds) % pageSize = 0

\* C32: over a static store of M messages that always answers, loadMore
\* called again and again after the initial delivery, each call after the
\* previous one finished, reaches hasMore = false; from then on the window
\* holds all M messages exactly once, oldest first; and when M is a positive
\* multiple of the page size, hasMore stays true until a loadMore that
\* returns an empty page sets it to false, with the whole store in the window.
C32_LoadMoreReachesTheEnd ==
  /\ <>[](~hasMore /\ lmPend = << >> /\ snapPend = << >>)
  /\ []( (sub.last # None /\ snapPend = << >> /\ lmPend = << >> /\ ~hasMore)
         => ( /\ Ids(messages) = MsgIds
              /\ NoDuplicateIds(messages)
              /\ OldestFirst(messages) ) )
  /\ [][ (WholePages /\ hasMore /\ ~hasMore')
         => ( /\ act'.name = "loadMoreGetDocs"
              /\ lmPend' = << >>
              /\ messages' = messages
              /\ Ids(messages) = MsgIds ) ]_vars

\* C32 witness: on a store of two full pages the second loadMore has
\* returned an empty page, and the window holds both pages.
C32_Witness ==
  /\ Cardinality(MsgIds) = 2 * pageSize
  /\ act.name = "loadMoreGetDocs"
  /\ ~hasMore
  /\ lmPend = << >>
  /\ Len(messages) = 2 * pageSize
  /\ Ids(messages) = MsgIds

\* C33: a loadMore call that passes its guard sets loadingMore, and
\* loadingMore is eventually false again whether the range query and the
\* reply resolution succeed or fail: every way a call ends resets it, it is
\* false whenever no call is in flight, and then the next call made from a
\* fresh render with history left passes the guard again.
C33_LoadingMoreIsReset ==
  /\ [][ (act'.name = "loadMore" /\ act'.out = "pending") => loadingMore' ]_vars
  /\ [][ Len(lmPend') < Len(lmPend) => ~loadingMore' ]_vars
  /\ [](lmPend = << >> => ~loadingMore)
  /\ (loadingMore ~> ~loadingMore)
  /\ [][ ( /\ act'.name = "loadMore"
           /\ error = "Failed to load more messages"
           /\ lmPend = << >> /\ cb = Captured
           /\ hasMore /\ lastDocRef # Null )
         => (act'.out = "pending" /\ loadingMore') ]_vars

\* C33 witness: a page load has failed, and a later call has passed the
\* guard and is under way.
C33_Witness ==
  /\ error = "Failed to load more messages"
  /\ act.name = "loadMore"
  /\ act.out = "pending"
  /\ loadingMore
  /\ Len(lmPend) = 1

\* The last step is a call of one of the hooks' operations by session 1,
\* up to its first await.
GuardedOps ==
  {"loadMore", "sendMessage", "sendDrawing", "toggleLike", "createList",
   "updateList", "deleteList", "addMessageToList", "removeFromList",
   "toggleItemCompleted"}
OpCalled ==
  /\ act'.name \in GuardedOps
  /\ act'.s = 1
  /\ (act'.name = "loadMore" \/ calls[1] = Idle)

\* C34: while userId is undefined, a call of loadMore, sendMessage,
\* sendDrawing, toggleLike, createList, updateList, deleteList,
\* addMessageToList, removeFromList or toggleItemCompleted returns without
\* error, starts no store read or write and changes no state of the hooks,
\* and neither subscription is open.
C34_NoUserNoEffect ==
  /\ [](userId = NoUser => (~sub.open /\ ~listsSub.open))
  /\ [][ (userId = NoUser /\ OpCalled)
         => ( /\ UNCHANGED programVars
              /\ act'.ok
              /\ act'.out = "resolved" ) ]_vars

\* C34 witness: after a sign-out that left the window, the cursor and the
\* lists in place, toggleItemCompleted has been called and has returned.
C34_Witness ==
  /\ userId = NoUser
  /\ act.name = "toggleItemCompleted"
  /\ act.out = "resolved"
  /\ messages # << >>
  /\ lastDocRef # Null
  /\ hasMore
  /\ lists # << >>
  /\ calls[1] = Idle

\* C35: whenever the list view has a selected list and is not loading, every
\* element of its items array has listId equal to the selected list's id,
\* also when list A is selected, left and list B selected before A's
\* getListItems result has arrived.  The fetch effect (part_008 lines 34-42)
\* installs every result it receives, whatever is selected by then, and
\* every settled fetch lowers loading: the statement is violated.
C35_ItemsOfSelectedList ==
  (view.selectedList # Null /\ ~view.loading)
    => \A i \in 1..Len(view.items) : view.items[i].listId = view.selectedList

\* C36: whenever the list view's selectedList is non-null, a list with that
\* id is present in the live lists array.  selectedList is state of the
\* ListView (part_008 line 28) written only by the row pick, the back
\* button, handleClose and handleDeleteList; no effect compares it with the
\* lists prop, so a list that the other party deletes or makes private
\* stays selected after the snapshot without it is delivered: the statement
\* is violated.
C36_SelectedListIsLive ==
  view.selectedList # Null => view.selectedList \in ShownLists

\* C38: toggleLike on a message id that has no document in the store
\* performs no write, leaves the local window unchanged and raises no
\* error: the call of session 1 reads the document, and the step at which
\* the read returns without a document ends the call resolved, with the
\* store, the window and the error state as they were; no toggleLike is
\* ever suspended on a write to a missing document.
LikeOfMissingReturns ==
  /\ calls[1].op = "toggleLike"
  /\ calls[1].pc = "getDoc"
  /\ ~Exists(UM_MESSAGES_COLLECTION, calls[1].messageId)
  /\ act'.name = "toggleLike.getDoc"
  /\ act'.s = 1
C38_LikeOfMissingMessage ==
  /\ [](\A s \in Sessions :
          (calls[s].op = "toggleLike" /\ calls[s].pc # "getDoc")
             => Exists(UM_MESSAGES_COLLECTION, calls[s].messageId))
  /\ [][ LikeOfMissingReturns
           => ( /\ db' = db
                /\ messages' = messages
                /\ error' = error
                /\ calls'[1] = Idle
                /\ act'.out = "resolved" ) ]_vars
C38_Witness ==
  /\ act.name = "toggleLike.getDoc"
  /\ act.s = 1
  /\ act.ok
  /\ act.out = "resolved"
  /\ calls[1] = Idle
  /\ \E i \in 1..Len(messages) : messages[i].likes # {}

\* C37: in every reachable state of the auth provider, user non-null implies
\* that firebaseUser is non-null and whitelisted; a sign-out that happens
\* while an earlier auth-state callback is awaiting its profile read or
\* write does not leave user non-null.  The callback of a whitelisted
\* account runs setUser(userData) when its setDoc resolves (part_002 lines
\* 70-72) whatever the listener has been told since: the statement is
\* violated.
C37_UserIsWhitelistedAccount ==
  auth.user # NoAccount
    => (auth.firebaseUser # NoAccount /\ auth.firebaseUser \in WHITELISTED_EMAILS)

\* C39: useLongPress invokes onLongPress at most once per press and never
\* after clear has run for that press, also when start is invoked twice
\* before clear.  The second start overwrites timerRef without clearing the
\* timer it held (useGestures.ts lines 91-97), so clear cancels only the
\* last timer armed: the statement is violated.
C39_OncePerPressNeverAfterClear ==
  /\ \A p \in 1..MaxPresses : press.invoked[p] <= 1
  /\ ~press.late

====
